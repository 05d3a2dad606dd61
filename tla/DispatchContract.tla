--------------------------- MODULE DispatchContract ---------------------------
(***************************************************************************)
(* What libdd_rc.h asks of a host that is given payloads through           *)
(* DispatchCb: a payload is either refused by the return code of the       *)
(* callback, or accepted and then answered by exactly one call of          *)
(* rc_conn_dispatch_result / rc_conn_dispatch_error; and the connection    *)
(* may be released only when nothing accepted is left unanswered, since an *)
(* answer given later would use a freed connection.                        *)
(*                                                                         *)
(* This is the abstract specification; module InvokePool implements it.    *)
(***************************************************************************)
CONSTANT Jobs     \* the payloads, by correlation id

VARIABLES
    status,       \* what the library has been told about each payload
    open          \* FALSE once the connection may be released

cvars == <<status, open>>

Statuses == {"new", "refused", "pending", "answered"}

ContractInit ==
    /\ status = [j \in Jobs |-> "new"]
    /\ open = TRUE

Refuse(j) ==
    /\ status[j] = "new"
    /\ status' = [status EXCEPT ![j] = "refused"]
    /\ UNCHANGED open

Accept(j) ==
    /\ open
    /\ status[j] = "new"
    /\ status' = [status EXCEPT ![j] = "pending"]
    /\ UNCHANGED open

Answer(j) ==
    /\ open
    /\ status[j] = "pending"
    /\ status' = [status EXCEPT ![j] = "answered"]
    /\ UNCHANGED open

Release ==
    /\ open
    /\ \A j \in Jobs : status[j] # "pending"
    /\ open' = FALSE
    /\ UNCHANGED status

ContractNext ==
    \/ Release
    \/ \E j \in Jobs : Refuse(j) \/ Accept(j) \/ Answer(j)

ContractSpec == ContractInit /\ [][ContractNext]_cvars
===============================================================================
