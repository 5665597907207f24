----------------------------- MODULE MCFindings ------------------------------
(***************************************************************************)
(* The loader of modules and the table of routes, side by side: each runs  *)
(* alone while the other one stays as it began.                            *)
(***************************************************************************)
EXTENDS LazyModules

-----------------------------------------------------------------------------
(* Modules to load at run time: ma imports mb; mb and mc import one        *)
(* another forwards; md imports itself after ma.                           *)
CONSTANTS ma, mb, mc, md

SomeImports == [m \in Modules |->
    CASE m = ma -> <<mb>> [] m = md -> <<ma, md>> [] OTHER -> <<>>]
SomeForward == [m \in Modules |->
    CASE m = mb -> <<mc>> [] m = mc -> <<mb>> [] OTHER -> <<>>]
SomeEager == {{}, {mb, mc}}

-----------------------------------------------------------------------------
(* Routes to ask for permission to call: bound to a host, to a version, to *)
(* neither, and behind a parameter.                                        *)
VARIABLES table, phase, versioning, asked, answer

RoutingVars == <<table, phase, versioning, asked, answer>>

Api == <<"api", "example">>

Routes == INSTANCE Routing WITH
    Declared <-
        [method : {"GET"}, path : {<<"cats">>, <<"any">>}, host : {<<>>, Api},
         version : {[kind |-> "unspecified", of |-> {}],
                    [kind |-> "neutral", of |-> {}],
                    [kind |-> "versions", of |-> {"1"}]}],
    Requests <-
        [method : {"GET"}, path : {<<"api", "cats">>, <<"api", "v1", "cats">>},
         host : {Api, <<"localhost">>}, version : {None, "1"}],
    VersionOf <- [s \in {"v1"} |-> "1"], GlobalPrefix <- <<"api">>, Excluded <- {},
    Strategies <- [strategy : {"none", "uri", "header"}, default : {None}],
    MaxRoutes <- 1

-----------------------------------------------------------------------------
Begin == Init /\ Routes!Init
LoaderSpec == Begin /\ [][Next /\ UNCHANGED RoutingVars]_<<vars, RoutingVars>>
RoutesSpec == Begin /\ [][Routes!Next /\ UNCHANGED vars]_<<vars, RoutingVars>>

(* Browsers learn that they may call what a route would answer             *)
(* (builder.rs, CORS preflight).                                           *)
PreflightAnswered == Routes!PreflightAnswered
=============================================================================
