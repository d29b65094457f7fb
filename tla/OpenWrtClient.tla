---------------------------- MODULE OpenWrtClient ----------------------------
(***************************************************************************)
(* The router client behind two tools of the language model                *)
(* (internal/tools/openwrt).  A call is cut at each HTTP request, because  *)
(* the router may restart in between and a request has no time limit: the  *)
(* client neither sets a Timeout nor passes the context on.                *)
(***************************************************************************)

CONSTANT ArpTable   \* /proc/net/arp can be read

ASSUME ArpTableAssumption == ArpTable \in BOOLEAN

VARIABLES
    token,      \* Client.token: "none" for the empty string
    rpc,        \* the request a call waits for
    granted     \* history variable: the router answered a login

routerVars == <<token, rpc, granted>>

RouterTool == {"get_router_clients", "get_router_network_status"}
Token == {"none", "good", "stale"}
Logins == {"login", "relogin", "statusLogin"}
Rpc == {"none", "devices", "sections"} \cup Logins

RouterInit == token = "none" /\ rpc = "none" /\ granted = FALSE

RouterTypeOK == token \in Token /\ rpc \in Rpc /\ granted \in BOOLEAN

\* parseARP takes the first name of each host without looking whether there is one.
ArpOutcomes == {"ok", "panics"} \cup (IF ArpTable THEN {} ELSE {"failed"})

\* Local commands and files that fail give empty lists, never an error.
LocalOutcomes == {"ok"}

\* A section the router does not give is empty; a wireless interface without the name of
\* its device is a failed type assertion.
SectionOutcomes == {"ok"} \cup (IF token = "good" THEN {"panics"} ELSE {})

CallRouter(tool) ==
    /\ rpc = "none"
    /\ rpc' = CASE tool = "get_router_clients" /\ token = "none" -> "login"
                [] tool = "get_router_clients" /\ token # "none" -> "devices"
                [] tool = "get_router_network_status" /\ token = "none" -> "statusLogin"
                [] OTHER -> "sections"
    /\ UNCHANGED <<token, granted>>

\* A token, or a JSON null that leaves the empty string: then getDevices logs in again.
LoginAnswered ==
    /\ rpc \in Logins
    /\ token' \in {"none", "good"}
    /\ granted' = TRUE
    /\ rpc' = CASE rpc = "login" /\ token' = "none" -> "relogin"
                [] rpc = "statusLogin" -> "sections"
                [] OTHER -> "devices"

\* Mutant: the first login has no fallback either.
LoginFailsWithoutFallback(outcome) ==
    /\ rpc \in Logins
    /\ IF rpc = "statusLogin" THEN outcome \in LocalOutcomes ELSE outcome = "failed"
    /\ rpc' = "none"
    /\ UNCHANGED <<token, granted>>

\* The caller of the first login falls back on the ARP table, that of the status on
\* local commands; getDevices, which logs in again, returns the error.
LoginFails(outcome) ==
    /\ \/ rpc = "login" /\ outcome \in ArpOutcomes
       \/ rpc = "relogin" /\ outcome = "failed"
       \/ rpc = "statusLogin" /\ outcome \in LocalOutcomes
    /\ rpc' = "none"
    /\ UNCHANGED <<token, granted>>

\* The answer only has to be JSON, which the refusal of an old token is not: the devices
\* are then read from the ARP table anyway.
Devices(outcome) ==
    /\ rpc = "devices"
    /\ \/ outcome = "failed"
       \/ token = "good" /\ outcome \in ArpOutcomes
    /\ rpc' = "none"
    /\ UNCHANGED <<token, granted>>

\* Each section that cannot be had is replaced by local data.
Sections(outcome) ==
    /\ rpc = "sections"
    /\ outcome \in SectionOutcomes
    /\ rpc' = "none"
    /\ UNCHANGED <<token, granted>>

\* The router restarts or the session ends there; the client is not told.
TokenExpires ==
    /\ token = "good"
    /\ token' = "stale"
    /\ UNCHANGED <<rpc, granted>>

CallReturns(outcome) == LoginFails(outcome) \/ Devices(outcome) \/ Sections(outcome)
=============================================================================
