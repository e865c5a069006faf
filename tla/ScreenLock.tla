------------------------------ MODULE ScreenLock ------------------------------
(***************************************************************************)
(* What `genkan lock` promises to those who call it and to the user, with  *)
(* nothing of sockets, threads, descriptors or events in it.  At a time    *)
(* one caller holds the screen lock; the session is locked when the        *)
(* compositor confirms the holder's lock, stays locked when the holder is  *)
(* lost, and is only unlocked for a holder whose own lock is confirmed.  A *)
(* caller is told of success only for a confirmed lock, its own or that of *)
(* the holder it joined.  Coordination implements this.                    *)
(***************************************************************************)
CONSTANTS Caller, NoOne

VARIABLES
    holder,      \* who holds the screen lock
    confirmed,   \* callers whose lock the compositor confirmed
    session,     \* "locked" or "unlocked"
    serving,     \* the holder each caller joined
    answer       \* what each caller was told

vars == <<holder, confirmed, session, serving, answer>>

Init ==
    /\ holder = NoOne /\ confirmed = {} /\ session = "unlocked"
    /\ serving = [c \in Caller |-> NoOne] /\ answer = [c \in Caller |-> "idle"]

Ask(c) ==
    /\ answer[c] = "idle" /\ answer' = [answer EXCEPT ![c] = "waiting"]
    /\ UNCHANGED <<holder, confirmed, session, serving>>

Hold(c) ==
    /\ holder = NoOne /\ answer[c] # "idle" /\ holder' = c
    /\ UNCHANGED <<confirmed, session, serving, answer>>

\* A holder that does not hold any more can not be joined.
Join(c) ==
    /\ serving[c] = NoOne /\ holder \notin {NoOne, c}
    /\ serving' = [serving EXCEPT ![c] = holder]
    /\ UNCHANGED <<holder, confirmed, session, answer>>

Confirm(c) ==
    /\ holder = c /\ c \notin confirmed
    /\ confirmed' = confirmed \cup {c} /\ session' = "locked"
    /\ UNCHANGED <<holder, serving, answer>>

Unlock ==
    /\ holder \in confirmed /\ session' = "unlocked"
    /\ UNCHANGED <<holder, confirmed, serving, answer>>

\* The holder ends or is lost: the session stays as it is.
LetGo ==
    /\ holder # NoOne /\ holder' = NoOne
    /\ UNCHANGED <<confirmed, session, serving, answer>>

Tell(c, a) ==
    /\ answer[c] = "waiting" /\ answer' = [answer EXCEPT ![c] = a]
    /\ a = "ok" => c \in confirmed \/ serving[c] \in confirmed
    /\ UNCHANGED <<holder, confirmed, session, serving>>

Next ==
    \/ \E c \in Caller : Ask(c) \/ Hold(c) \/ Join(c) \/ Confirm(c)
                            \/ \E a \in {"ok", "failed"} : Tell(c, a)
    \/ Unlock \/ LetGo

Spec == Init /\ [][Next]_vars
=============================================================================
