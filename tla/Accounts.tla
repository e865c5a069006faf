------------------------------- MODULE Accounts -------------------------------
(***************************************************************************)
(* The accounts the greeter offers (src/accounts.rs) and the user a locker *)
(* locks for (src/locker/identity.rs).  AccountsService lists users and is *)
(* asked for the properties of each, one call after the other, while users *)
(* come and go; a call that fails loses one user.  The locker asks NSS for *)
(* its own user with a buffer it doubles until the answer fits.            *)
(*                                                                         *)
(* A user is what AccountsService tells of it; names are their ranks in    *)
(* the order of strings, 0 is no name or one that can not be shown.        *)
(***************************************************************************)
EXTENDS Naturals, Sequences, SequencesExt, FiniteSets, FiniteSetsExt

CONSTANTS
    Users,       \* properties: username, real_name, hidden, last_login (0: none)
    MaxUsers,    \* bound of the model on users
    INITIAL_BUFFER_SIZE, MAX_BUFFER_SIZE,
    Sizes        \* bytes an entry of NSS may take

AccountsAssumption ==
    /\ MaxUsers \in Nat /\ Sizes \subseteq Nat
    /\ INITIAL_BUFFER_SIZE \in Nat \ {0} /\ MAX_BUFFER_SIZE >= INITIAL_BUFFER_SIZE

VARIABLES
    paths,       \* users still to be asked for
    results,     \* answers: a set with a user, or with none if the call failed
    outcome,     \* what discover returned
    entry,       \* NSS: [size, username, gecos]
    size,        \* of resolve's buffer
    identity     \* what resolve returned

discoverVars == <<paths, results, outcome>>
resolveVars  == <<entry, size, identity>>
vars == <<discoverVars, resolveVars>>

Pending == <<"pending">>
Failed(e) == <<"error", e>>

-----------------------------------------------------------------------------
(* accounts.rs *)

valid_username(n) == n # 0

\* Account::from_properties: a set of one account or none.
from_properties(u) ==
    IF u.hidden \/ ~valid_username(u.username) THEN {}
    ELSE {[username |-> u.username, last_login |-> u.last_login,
           display_name |-> IF u.real_name = 0 THEN u.username ELSE u.real_name]}

preferred_account(A) ==
    LET login(i) == A[i].last_login
        latest   == {i \in DOMAIN A : \A j \in DOMAIN A : login(j) <= login(i)} IN
    IF Len(A) = 1 THEN {A[1]}
    ELSE IF \E i \in DOMAIN A : login(i) = 0 THEN {}
    ELSE IF Cardinality(latest) = 1 THEN {A[i] : i \in latest} ELSE {}

Before(a, b) ==
    a.display_name < b.display_name
      \/ (a.display_name = b.display_name /\ a.username < b.username)

Collected(found) == found # {} \/ \A i \in DOMAIN results : results[i] # {}

collect_accounts ==
    LET found == UNION {UNION {from_properties(u) : u \in results[i]} : i \in DOMAIN results} IN
    outcome' = IF Collected(found) THEN <<"accounts", SetToSortSeq(found, Before)>>
               ELSE Failed("bus")

\* The connection, its proxy and ListCachedUsers: the service lists no one.
list_fails ==
    /\ results = << >> /\ outcome = Pending
    /\ outcome' = Failed("list")
    /\ UNCHANGED <<paths, results, resolveVars>>

\* A call fails, or answers with the properties the user has.
load_properties ==
    /\ paths # << >> /\ outcome = Pending
    /\ paths' = Tail(paths)
    /\ results' \in {Append(results, {}), Append(results, {Head(paths)})}
    /\ UNCHANGED <<outcome, resolveVars>>

discover ==
    /\ paths = << >> /\ outcome = Pending /\ collect_accounts
    /\ UNCHANGED <<paths, results, resolveVars>>

-----------------------------------------------------------------------------
(* identity.rs *)

Grown == Min({2 * size, MAX_BUFFER_SIZE})

MayGrow == size < MAX_BUFFER_SIZE

\* getpwuid_r answers that the buffer is short, fails, finds nobody, or fills the entry.
resolve ==
    /\ identity = Pending
    /\ \/ /\ entry.size > size /\ MayGrow
          /\ size' = Grown /\ UNCHANGED identity
       \/ /\ entry.size > size /\ ~MayGrow
          /\ identity' = Failed("short") /\ UNCHANGED size
       \/ /\ entry.size <= size
          /\ identity' \in {Failed("system"), Failed("not found"),
               IF ~valid_username(entry.username) THEN Failed("invalid")
               ELSE <<"found", entry.username,
                      IF entry.gecos = 0 THEN entry.username ELSE entry.gecos>>}
          /\ UNCHANGED size
    /\ UNCHANGED <<entry, discoverVars>>

-----------------------------------------------------------------------------
\* A service lists a user once.
Init ==
    /\ \/ /\ paths \in UNION {[1 .. n -> Users] : n \in 0 .. MaxUsers}
          /\ \A i, j \in DOMAIN paths : i # j => paths[i].username # paths[j].username
          /\ entry = [size |-> 0, username |-> 0, gecos |-> 0] /\ identity = Failed("not asked")
       \/ /\ paths = << >>
          /\ entry \in [size : Sizes, username : {0, 1}, gecos : {0, 2}] /\ identity = Pending
    /\ results = << >> /\ outcome = Pending /\ size = INITIAL_BUFFER_SIZE

Next == list_fails \/ load_properties \/ discover \/ resolve

Spec == Init /\ [][Next]_vars

-----------------------------------------------------------------------------
(* Properties *)

TypeOK ==
    /\ outcome[1] \in {"pending", "accounts", "error"}
    /\ identity[1] \in {"pending", "found", "error"}
    /\ size \in INITIAL_BUFFER_SIZE .. MAX_BUFFER_SIZE

\* Users whose properties came.
Answered == UNION {results[i] : i \in DOMAIN results}

\* The greeter offers every person whose account could be read and nobody else; it fails
\* only if the users are not listed, or nobody is left and a call failed, whatever the
\* order of the calls.
OneFailureLosesOneUser ==
    outcome \notin {Pending, Failed("list")} =>
      LET people == {u \in Answered : ~u.hidden /\ u.username # 0} IN
      IF outcome[1] = "error" THEN people = {} /\ Cardinality(Answered) < Len(results)
      ELSE {outcome[2][i].username : i \in DOMAIN outcome[2]} = {u.username : u \in people}

\* The account the greeter begins with, without asking, is the only one, or logged in last:
\* later than every other, each of which has a login to compare.
PreferenceIsCertain ==
    outcome[1] = "accounts" => \A a \in preferred_account(outcome[2]) :
      \A b \in ToSet(outcome[2]) \ {a} : b.last_login # 0 /\ b.last_login < a.last_login

\* A user is lost for the size of its entry only if that exceeds the limit.
FittingEntryIsRead == identity = Failed("short") => entry.size > MAX_BUFFER_SIZE
=============================================================================
