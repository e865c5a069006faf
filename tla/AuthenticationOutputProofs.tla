--------------------- MODULE AuthenticationOutputProofs ---------------------
(***************************************************************************)
(* Proofs about AuthenticationOutput, for any finite set of outputs, any   *)
(* preference among them and any number of commits under way.              *)
(*                                                                         *)
(* What is on display lags behind what the runtime knows, so the invariant *)
(* is about what may still be displayed: an output whose screen, or one of *)
(* whose commits under way, shows authentication either has the role or is *)
(* the one that retires.  The role moves on only when the presentation of  *)
(* a wallpaper is reported, and by then nothing older is left to display.  *)
(***************************************************************************)
EXTENDS AuthenticationOutput, SequenceTheorems, FiniteSetTheorems,
        WellFoundedInduction, NaturalsInduction, TLAPS

-----------------------------------------------------------------------------
(* The inductive invariant *)

SurfaceInv ==
    /\ configured \subseteq ToSet(surfaces) /\ ToSet(surfaces) \subseteq listed
    /\ plugged \subseteq listed
    /\ \A o \in Output : display[o] # "none" => o \in plugged

\* Authentication is on the screen s or in the commits c under way to it.
MayShow(s, c) == s = "authentication" \/ \E i \in 1 .. Len(c) : c[i].role = "authentication"

Handoffs == [output : Output \cup {None},
             phase : {"None", "AwaitingCommit", "AwaitingPresentation"},
             feedback : Nat, overdue : BOOLEAN]

\* Who has the role, and the handoff h between two who have it.  The parameters
\* are the state that a handler has reached when it refreshes the role.
RoleInv(conf, auth, rp, h) ==
    /\ auth \subseteq conf /\ rp \subseteq Output /\ h \in Handoffs
    /\ \A o, p \in auth : o = p
    /\ h.phase # "AwaitingPresentation" => h.feedback = 0
    /\ h.phase = "None" <=> h.output = None
    /\ h.phase = "None" => h.overdue = FALSE
    /\ h.output # None =>
         /\ auth = {} /\ h.output \in conf
         /\ h.phase = "AwaitingCommit" => h.output \in rp

ShowInv(auth, h, disp, com) ==
    \A o \in Output : MayShow(disp[o], com[o]) => o \in auth \/ o = h.output

\* The wallpaper of a handoff is the last thing to be displayed where it is under
\* way, and is displayed once that is reported.
WallpaperInv(h, disp, com, out) ==
    h.feedback # 0 =>
        /\ h.feedback < nextFeedback
        /\ \A o \in Output : \A i \in 1 .. Len(com[o]) :
               com[o][i].feedback = h.feedback =>
                   /\ o = h.output
                   /\ \A j \in i .. Len(com[o]) : com[o][j].role = "wallpaper"
        /\ [feedback |-> h.feedback, kind |-> "presented"] \in out =>
               ~MayShow(disp[h.output], com[h.output])

\* The fate of the wallpaper is known or still owed.
OwedInv(h, com, out) ==
    h.phase = "AwaitingPresentation" =>
        /\ h.feedback # 0
        /\ \/ \E i \in 1 .. Len(com[h.output]) : com[h.output][i].feedback = h.feedback
           \/ \E e \in out : e.feedback = h.feedback

\* Feedback objects are numbered as they are made.
NumberInv ==
    /\ nextFeedback # 0
    /\ \A o \in Output : \A i \in 1 .. Len(commits[o]) : commits[o][i].feedback < nextFeedback
    /\ \A e \in outcomes : e.feedback < nextFeedback

Inv ==
    /\ TypeOK /\ SurfaceInv /\ NumberInv
    /\ RoleInv(configured, authentication, role_pending, handoff)
    /\ ShowInv(authentication, handoff, display, commits)
    /\ WallpaperInv(handoff, display, commits, outcomes)
    /\ OwedInv(handoff, commits, outcomes)

-----------------------------------------------------------------------------
(* Numbers and sequences *)

Below == {p \in Nat \X Nat : p[1] < p[2]}

\* A set of numbers has a least one, so Min is one of them.
LEMMA MinIsMember ==
    ASSUME NEW S \in SUBSET Nat, S # {}
    PROVE  Min(S) \in S
<1>1. OpToRel(<, Nat) = Below
  BY Zenon DEF Below, OpToRel
<1>2. IsWellFoundedOn(Below, Nat)
  BY <1>1, NatLessThanWellFounded, Zenon
<1>3. PICK x \in S : \A y \in S : ~(<<y, x>> \in Below)
  BY <1>2, WFMin
<1>4. ASSUME NEW y \in S
      PROVE  x <= y
  <2>1. x \in Nat /\ y \in Nat
    OBVIOUS
  <2>2. ~(<<y, x>> \in Below)
    BY <1>3
  <2>3. ~(y < x)
    BY <2>1, <2>2 DEF Below
  <2>4. QED
    BY <2>1, <2>3
<1>5. QED
  BY <1>4 DEF Min

\* ToSet on a sequence over T.
LEMMA ToSetIsRange ==
    ASSUME NEW T, NEW s \in Seq(T)
    PROVE  /\ ToSet(s) \subseteq T
           /\ \A x : x \in ToSet(s) <=> \E i \in 1 .. Len(s) : s[i] = x
  BY DEF ToSet

\* What follows the n-th element of a sequence.
LEMMA Later ==
    ASSUME NEW T, NEW s \in Seq(T), NEW n \in 1 .. Len(s)
    PROVE  /\ SubSeq(s, n + 1, Len(s)) \in Seq(T)
           /\ Len(SubSeq(s, n + 1, Len(s))) = Len(s) - n
           /\ \A i \in 1 .. Len(s) - n : SubSeq(s, n + 1, Len(s))[i] = s[i + n]
<1>1. n \in Nat /\ Len(s) \in Nat /\ n + 1 \in Int
  OBVIOUS
<1>2. \A i \in n + 1 .. Len(s) : s[i] \in T
  BY <1>1
<1>3. /\ SubSeq(s, n + 1, Len(s)) \in Seq(T)
      /\ Len(SubSeq(s, n + 1, Len(s))) = IF n + 1 <= Len(s) THEN Len(s) - (n + 1) + 1 ELSE 0
      /\ \A i \in 1 .. Len(s) - (n + 1) + 1 : SubSeq(s, n + 1, Len(s))[i] = s[(n + 1) + i - 1]
  BY <1>1, <1>2, SubSeqProperties
<1>4. /\ Len(s) - (n + 1) + 1 = Len(s) - n
      /\ (IF n + 1 <= Len(s) THEN Len(s) - (n + 1) + 1 ELSE 0) = Len(s) - n
  BY <1>1
<1>5. ASSUME NEW i \in 1 .. Len(s) - n
      PROVE  SubSeq(s, n + 1, Len(s))[i] = s[i + n]
  <2>1. (n + 1) + i - 1 = i + n
    BY <1>1
  <2>2. SubSeq(s, n + 1, Len(s))[i] = s[(n + 1) + i - 1]
    BY <1>3, <1>4
  <2>3. QED
    BY <2>1, <2>2
<1>6. QED
  BY <1>3, <1>4, <1>5

\* What precedes it.
LEMMA Earlier ==
    ASSUME NEW T, NEW s \in Seq(T), NEW n \in 1 .. Len(s)
    PROVE  /\ SubSeq(s, 1, n - 1) \in Seq(T)
           /\ Len(SubSeq(s, 1, n - 1)) = n - 1
           /\ \A i \in 1 .. n - 1 : SubSeq(s, 1, n - 1)[i] = s[i]
<1>1. n \in Nat /\ Len(s) \in Nat
  OBVIOUS
<1>2. QED
  BY <1>1

\* A surface that is added (add_surface).
LEMMA Appended ==
    ASSUME NEW s \in Seq(Output), IsInjective(s), NEW o \in Output, o \notin ToSet(s)
    PROVE  /\ Append(s, o) \in Seq(Output) /\ IsInjective(Append(s, o))
           /\ ToSet(Append(s, o)) = ToSet(s) \cup {o}
<1>1. /\ Append(s, o) \in Seq(Output) /\ Len(Append(s, o)) = Len(s) + 1 /\ Len(s) \in Nat
      /\ \A i \in 1 .. Len(s) : Append(s, o)[i] = s[i]
      /\ Append(s, o)[Len(s) + 1] = o
      /\ DOMAIN Append(s, o) = 1 .. Len(s) + 1 /\ DOMAIN s = 1 .. Len(s)
  BY AppendProperties, LenProperties
<1>2. ToSet(Append(s, o)) = ToSet(s) \cup {o}
  BY <1>1 DEF ToSet
<1>3. IsInjective(Append(s, o))
  <2>1. ASSUME NEW i \in 1 .. Len(s) + 1, NEW j \in 1 .. Len(s) + 1,
               Append(s, o)[i] = Append(s, o)[j]
        PROVE  i = j
    <3>1. CASE i \in 1 .. Len(s) /\ j \in 1 .. Len(s)
      BY <1>1, <2>1, <3>1 DEF IsInjective
    <3>2. CASE i \in 1 .. Len(s) /\ j = Len(s) + 1
      BY <1>1, <2>1, <3>2 DEF ToSet
    <3>3. CASE i = Len(s) + 1 /\ j \in 1 .. Len(s)
      BY <1>1, <2>1, <3>3 DEF ToSet
    <3>4. QED
      BY <1>1, <3>1, <3>2, <3>3
  <2>2. QED
    BY <1>1, <2>1 DEF IsInjective
<1>4. QED
  BY <1>1, <1>2, <1>3

\* A surface that is removed (output_destroyed).
LEMMA Retained ==
    ASSUME surfaces \in Seq(Output), IsInjective(surfaces), NEW o \in Output
    PROVE  /\ retain(o) \in Seq(Output) /\ IsInjective(retain(o))
           /\ ToSet(retain(o)) = ToSet(surfaces) \ {o}
<1>1. CASE ~HasSurface(o)
  BY <1>1 DEF retain, HasSurface
<1>2. CASE HasSurface(o)
  <2>1. PICK k \in 1 .. Len(surfaces) :
          surfaces[k] = o /\ k = CHOOSE i \in DOMAIN surfaces : surfaces[i] = o
    BY <1>2 DEF HasSurface, ToSet
  <2> DEFINE n == Len(surfaces)
             r == retain(o)
  <2>2. n \in Nat /\ k \in Nat /\ DOMAIN surfaces = 1 .. n
    OBVIOUS
  <2>3. r = SubSeq(surfaces, 1, k - 1) \o SubSeq(surfaces, k + 1, n)
    BY <1>2, <2>1 DEF retain, RemoveAt
  <2>4. /\ SubSeq(surfaces, 1, k - 1) \in Seq(Output)
        /\ Len(SubSeq(surfaces, 1, k - 1)) = k - 1
        /\ \A i \in 1 .. k - 1 : SubSeq(surfaces, 1, k - 1)[i] = surfaces[i]
    BY Earlier
  <2>5. /\ SubSeq(surfaces, k + 1, n) \in Seq(Output)
        /\ Len(SubSeq(surfaces, k + 1, n)) = n - k
        /\ \A i \in 1 .. n - k : SubSeq(surfaces, k + 1, n)[i] = surfaces[i + k]
    BY Later
  <2>6. /\ r \in Seq(Output) /\ Len(r) = n - 1
        /\ \A i \in 1 .. n - 1 : r[i] = IF i < k THEN surfaces[i] ELSE surfaces[i + 1]
    <3> DEFINE a == SubSeq(surfaces, 1, k - 1)
               b == SubSeq(surfaces, k + 1, n)
    <3>1. a \in Seq(Output) /\ b \in Seq(Output) /\ Len(a) = k - 1 /\ Len(b) = n - k
      BY <2>4, <2>5
    <3>2. /\ a \o b \in Seq(Output) /\ Len(a \o b) = n - 1
          /\ \A i \in 1 .. n - 1 : (a \o b)[i] = IF i < k THEN a[i] ELSE b[i - (k - 1)]
      <4> HIDE DEF a, b
      <4>1. /\ a \o b \in Seq(Output) /\ Len(a \o b) = Len(a) + Len(b)
            /\ \A i \in 1 .. Len(a) + Len(b) :
                   (a \o b)[i] = IF i <= Len(a) THEN a[i] ELSE b[i - Len(a)]
        BY <3>1, ConcatProperties
      <4>2. QED
        BY <2>2, <3>1, <4>1
    <3>3. ASSUME NEW i \in 1 .. n - 1
          PROVE  r[i] = IF i < k THEN surfaces[i] ELSE surfaces[i + 1]
      <4>1. CASE i < k
        <5>1. i \in 1 .. k - 1
          BY <2>2, <4>1
        <5>2. QED
          BY <2>3, <2>4, <3>2, <4>1, <5>1
      <4>2. CASE ~(i < k)
        <5>1. i - (k - 1) \in 1 .. n - k /\ i - (k - 1) + k = i + 1
          BY <2>2, <4>2
        <5>2. QED
          BY <2>3, <2>5, <3>2, <4>2, <5>1
      <4>3. QED
        BY <4>1, <4>2
    <3>4. QED
      BY <2>3, <3>2, <3>3
  <2>7. DOMAIN r = 1 .. n - 1
    BY <2>6
  <2> HIDE DEF r, n
  <2>8. IsInjective(r)
    <3>1. ASSUME NEW i \in 1 .. n - 1, NEW j \in 1 .. n - 1, r[i] = r[j]
          PROVE  i = j
      <4> DEFINE at(x) == IF x < k THEN x ELSE x + 1
      <4>1. at(i) \in 1 .. n /\ at(j) \in 1 .. n /\ (at(i) = at(j) => i = j)
        BY <2>2
      <4>2. r[i] = surfaces[at(i)] /\ r[j] = surfaces[at(j)]
        BY <2>6
      <4>3. QED
        BY <2>2, <3>1, <4>1, <4>2 DEF IsInjective
    <3>2. QED
      BY <2>7, <3>1 DEF IsInjective
  <2>9. \A i \in 1 .. n : surfaces[i] = o <=> i = k
    BY <2>1, <2>2 DEF IsInjective
  <2>10. ToSet(r) = ToSet(surfaces) \ {o}
    <3>1. ASSUME NEW x \in ToSet(r)
          PROVE  x \in ToSet(surfaces) \ {o}
      <4>1. PICK i \in 1 .. n - 1 : r[i] = x
        BY <2>7 DEF ToSet
      <4>2. CASE i < k
        <5>1. i \in 1 .. n /\ i # k
          BY <2>2, <4>2
        <5>2. QED
          BY <2>2, <2>6, <2>9, <4>1, <4>2, <5>1 DEF ToSet
      <4>3. CASE ~(i < k)
        <5>1. i + 1 \in 1 .. n /\ i + 1 # k
          BY <2>2, <4>3
        <5>2. QED
          BY <2>2, <2>6, <2>9, <4>1, <4>3, <5>1 DEF ToSet
      <4>4. QED
        BY <4>2, <4>3
    <3>2. ASSUME NEW x \in ToSet(surfaces), x # o
          PROVE  x \in ToSet(r)
      <4>1. PICK i \in 1 .. n : surfaces[i] = x
        BY <2>2 DEF ToSet
      <4>2. i # k
        BY <2>9, <3>2, <4>1
      <4>3. CASE i < k
        <5>1. i \in 1 .. n - 1 /\ r[i] = x
          BY <2>2, <2>6, <4>1, <4>3
        <5>2. QED
          BY <2>7, <5>1 DEF ToSet
      <4>4. CASE i > k
        <5>1. i - 1 \in 1 .. n - 1 /\ r[i - 1] = x
          BY <2>2, <2>6, <4>1, <4>4
        <5>2. QED
          BY <2>7, <5>1 DEF ToSet
      <4>5. QED
        BY <2>2, <4>2, <4>3, <4>4
    <3>3. QED
      BY <3>1, <3>2
  <2>11. QED
    BY <2>6, <2>8, <2>10 DEF r
<1>3. QED
  BY <1>1, <1>2

-----------------------------------------------------------------------------
(* The selection *)

\* select returns a candidate, and none only if there is none.
LEMMA SelectIsCandidate ==
    ASSUME NEW S \in Seq(Output), NEW nam, NEW C \in SUBSET ToSet(S)
    PROVE  select(S, nam, C) \in C \cup {None}
<1> DEFINE known    == C \cap nam
           external == known \ {Internal}
           places   == {i \in DOMAIN S : S[i] \in C}
<1>1. external # {} => Min(external) \in external
  BY MinIsMember, ToSetIsRange, OutputAssumption
<1>2. C # {} => S[Min(places)] \in C
  <2>1. C # {} => places # {}
    BY DEF ToSet
  <2>2. places \in SUBSET Nat
    OBVIOUS
  <2>3. C # {} => Min(places) \in places
    BY <2>1, <2>2, MinIsMember
  <2>4. QED
    BY <2>3
<1> HIDE DEF places
<1>3. QED
  BY <1>1, <1>2 DEF select, places

\* The carrier is the surface that has the role, if one has it.
LEMMA CarrierHasRole ==
    ASSUME NEW S \in Seq(Output), NEW auth \in SUBSET ToSet(S)
    PROVE  /\ auth = {} => Carrier(S, auth) = None
           /\ auth # {} => Carrier(S, auth) \in auth
<1> DEFINE places == {i \in DOMAIN S : S[i] \in auth}
<1>1. auth # {} => places # {}
  BY DEF ToSet
<1>2. places \in SUBSET Nat
  OBVIOUS
<1>3. auth # {} => Min(places) \in places
  BY <1>1, <1>2, MinIsMember
<1>4. QED
  BY <1>3 DEF Carrier

\* The output selected is configured (select_authentication_index).
LEMMA SelectedIsConfigured ==
    ASSUME NEW S \in Seq(Output), NEW nam, NEW conf \in SUBSET ToSet(S),
           NEW auth \in SUBSET conf
    PROVE  select_authentication_index(S, nam, conf, auth) \in conf \cup {None}
<1>1. ToSet(S) \cap conf = conf /\ conf \cap auth = auth
  OBVIOUS
<1>2. select(S, nam, conf) \in conf \cup {None}
  BY SelectIsCandidate
<1>3. auth # {} => Carrier(S, auth) \in auth
  BY CarrierHasRole
<1>4. QED
  BY <1>1, <1>2, <1>3 DEF select_authentication_index

\* refresh_authentication_output leaves the role as it is, starts a handoff with
\* the surface that has it, or gives it to a configured surface when none has it.
RefreshResult(conf, auth, rp, h) ==
    \/ authentication' = auth /\ role_pending' = rp /\ handoff' = h
    \/ \E c \in conf : /\ auth = {c} /\ authentication' = {} /\ handoff' = begin(c)
                       /\ role_pending' = rp \cup {c} /\ h.output = None
    \/ \E c \in conf : /\ auth = {} /\ authentication' = {c} /\ handoff' = h
                       /\ role_pending' = rp \cup {c} /\ h.output = None

\* refresh_authentication_output does one of those three.
LEMMA Refreshed ==
    ASSUME NEW S \in Seq(Output), NEW nam, NEW conf \in SUBSET ToSet(S),
           NEW auth, NEW rp, NEW h, RoleInv(conf, auth, rp, h),
           refresh_authentication_output(S, nam, conf, auth, rp, h)
    PROVE  RefreshResult(conf, auth, rp, h)
<1> DEFINE selected == select_authentication_index(S, nam, conf, auth)
           current  == Carrier(S, auth)
<1>1. /\ auth \subseteq conf /\ auth \subseteq ToSet(S) /\ (\A o, p \in auth : o = p)
      /\ conf \subseteq Output
  BY ToSetIsRange DEF RoleInv
<1>2. selected \in conf \cup {None}
  BY <1>1, SelectedIsConfigured
<1>3. (auth = {} => current = None) /\ (auth # {} => current \in auth)
  BY <1>1, CarrierHasRole
<1>4. None \notin conf
  BY <1>1, OutputAssumption
<1> HIDE DEF selected, current
<1>5. h = NoHandoff => h.output = None
  BY DEF NoHandoff
<1>6. CASE authentication' = auth /\ role_pending' = rp /\ handoff' = h
  BY <1>6 DEF RefreshResult
<1>7. CASE /\ h = NoHandoff /\ current # None
           /\ authentication' = auth \ {current} /\ handoff' = begin(current)
           /\ set_authentication(rp, current, conf)
  <2>1. auth # {} /\ current \in auth
    BY <1>3, <1>7
  <2>2. auth = {current} /\ current \in conf
    BY <1>1, <2>1
  <2>3. authentication' = {} /\ role_pending' = rp \cup {current}
    BY <1>7, <2>2 DEF set_authentication
  <2>4. QED
    BY <1>5, <1>7, <2>2, <2>3 DEF RefreshResult
<1>8. CASE /\ h = NoHandoff /\ current # selected /\ current = None
           /\ authentication' = auth \cup {selected} /\ handoff' = h
           /\ set_authentication(rp, selected, conf)
  <2>1. auth = {} /\ selected \in conf
    BY <1>1, <1>2, <1>3, <1>4, <1>8
  <2>2. authentication' = {selected} /\ role_pending' = rp \cup {selected}
    BY <1>8, <2>1 DEF set_authentication
  <2>3. QED
    BY <1>5, <1>8, <2>1, <2>2 DEF RefreshResult
<1>9. QED
  BY <1>6, <1>7, <1>8 DEF refresh_authentication_output, selected, current

\* Whichever it does, the role's part of the invariant is kept.
LEMMA RefreshKeeps ==
    ASSUME NEW S \in Seq(Output), NEW nam, NEW conf \in SUBSET ToSet(S),
           NEW auth, NEW rp, NEW h, NEW disp, NEW com, NEW out,
           RoleInv(conf, auth, rp, h), ShowInv(auth, h, disp, com),
           WallpaperInv(h, disp, com, out), OwedInv(h, com, out),
           refresh_authentication_output(S, nam, conf, auth, rp, h)
    PROVE  /\ RoleInv(conf, authentication', role_pending', handoff')
           /\ ShowInv(authentication', handoff', disp, com)
           /\ WallpaperInv(handoff', disp, com, out) /\ OwedInv(handoff', com, out)
<1>1. conf \subseteq Output /\ None \notin Output
  BY ToSetIsRange, OutputAssumption
<1>2. CASE authentication' = auth /\ role_pending' = rp /\ handoff' = h
  BY <1>2
<1>3. ASSUME NEW c \in conf, auth = {c}, authentication' = {}, handoff' = begin(c),
             role_pending' = rp \cup {c}, h.output = None
      PROVE  /\ RoleInv(conf, authentication', role_pending', handoff')
             /\ ShowInv(authentication', handoff', disp, com)
             /\ WallpaperInv(handoff', disp, com, out) /\ OwedInv(handoff', com, out)
  <2>1. /\ handoff' \in Handoffs /\ handoff'.output = c /\ handoff'.phase = "AwaitingCommit"
        /\ handoff'.feedback = 0 /\ handoff'.overdue = FALSE
    BY <1>1, <1>3 DEF begin, Handoffs
  <2>2. RoleInv(conf, authentication', role_pending', handoff')
    BY <1>1, <1>3, <2>1 DEF RoleInv
  <2>3. ShowInv(authentication', handoff', disp, com)
    BY <1>1, <1>3, <2>1 DEF ShowInv
  <2>4. WallpaperInv(handoff', disp, com, out) /\ OwedInv(handoff', com, out)
    BY <2>1 DEF WallpaperInv, OwedInv
  <2>5. QED
    BY <2>2, <2>3, <2>4
<1>4. ASSUME NEW c \in conf, auth = {}, authentication' = {c}, handoff' = h,
             role_pending' = rp \cup {c}, h.output = None
      PROVE  /\ RoleInv(conf, authentication', role_pending', handoff')
             /\ ShowInv(authentication', handoff', disp, com)
             /\ WallpaperInv(handoff', disp, com, out) /\ OwedInv(handoff', com, out)
  <2>1. RoleInv(conf, authentication', role_pending', handoff')
    BY <1>1, <1>4 DEF RoleInv
  <2>2. ShowInv(authentication', handoff', disp, com)
    BY <1>1, <1>4 DEF ShowInv
  <2>3. QED
    BY <1>4, <2>1, <2>2
<1>5. RefreshResult(conf, auth, rp, h)
  BY Refreshed
<1>6. QED
  BY <1>2, <1>3, <1>4, <1>5 DEF RefreshResult

-----------------------------------------------------------------------------
(* Every step keeps the invariant *)

\* A handler that refreshes the role after it changed the surfaces keeps the
\* invariant if it held for the state the handler had reached.
LEMMA HandlerKeeps ==
    ASSUME Inv, pc' \in {"dispatch", "turn", "render"},
           listed' \in SUBSET Output, fresh' \in SUBSET listed',
           surfaces' \in Seq(Output), IsInjective(surfaces'), named' \in SUBSET Output,
           configured' \subseteq ToSet(surfaces'), ToSet(surfaces') \subseteq listed',
           plugged' = plugged, plugged \subseteq listed', display' = display,
           commits' \in [Output -> Seq(Commit)],
           \A o \in Output : commits'[o] = commits[o] \/ commits'[o] = << >>,
           outcomes' \subseteq outcomes, nextFeedback' = nextFeedback,
           NEW auth, NEW rp, NEW h,
           RoleInv(configured', auth, rp, h), ShowInv(auth, h, display', commits'),
           WallpaperInv(h, display', commits', outcomes'), OwedInv(h, commits', outcomes'),
           refresh_authentication_output(surfaces', named', configured', auth, rp, h)
    PROVE  Inv'
<1>1. /\ RoleInv(configured', authentication', role_pending', handoff')
      /\ ShowInv(authentication', handoff', display', commits')
      /\ WallpaperInv(handoff', display', commits', outcomes')
      /\ OwedInv(handoff', commits', outcomes')
  BY RefreshKeeps
<1>2. configured' \subseteq Output
  BY ToSetIsRange
<1>3. TypeOK'
  BY <1>1, <1>2 DEF Inv, TypeOK, RoleInv, Handoffs
<1>4. SurfaceInv'
  BY DEF Inv, SurfaceInv
<1>5. NumberInv'
  <2>1. \A o \in Output : \A i \in 1 .. Len(commits'[o]) : commits'[o] = commits[o]
    OBVIOUS
  <2>2. QED
    BY <2>1 DEF Inv, NumberInv
<1>6. WallpaperInv(handoff, display, commits, outcomes)'
  BY <1>1 DEF WallpaperInv
<1>7. QED
  BY <1>1, <1>3, <1>4, <1>5, <1>6 DEF Inv, ShowInv, OwedInv, RoleInv

\* A new output is listed (OutputState).
LEMMA ListOutputKeeps ==
    ASSUME Inv, NEW o \in Output, ListOutput(o)
    PROVE  Inv'
<1> USE DEF Inv, ListOutput, roleVars
<1>1. TypeOK'
  BY DEF TypeOK
<1>2. SurfaceInv' /\ NumberInv'
  BY DEF SurfaceInv, NumberInv, TypeOK
<1>3. QED
  BY <1>1, <1>2 DEF RoleInv, ShowInv, WallpaperInv, OwedInv

\* A surface is made for an output without one (add_surface).
LEMMA AddSurfaceKeeps ==
    ASSUME Inv, NEW o \in listed \ ToSet(surfaces), add_surface(o),
           pc' = pc, listed' = listed, fresh' \in SUBSET listed, UNCHANGED compVars
    PROVE  Inv'
<1>1. o \in Output /\ surfaces \in Seq(Output) /\ IsInjective(surfaces)
  BY DEF Inv, TypeOK
<1>2. PICK nam \in {named \cup {o}, named \ {o}} :
        /\ surfaces' = Append(surfaces, o)
        /\ named' = nam
        /\ configured' = configured \ {o}
        /\ refresh_authentication_output(surfaces', nam, configured',
               authentication \ {o}, role_pending \ {o}, handoff)
  BY DEF add_surface
<1>3. /\ surfaces' \in Seq(Output) /\ IsInjective(surfaces')
      /\ ToSet(surfaces') = ToSet(surfaces) \cup {o}
  BY <1>1, <1>2, Appended
<1>4. /\ configured \subseteq ToSet(surfaces) /\ o \notin configured /\ configured' = configured
      /\ o \notin authentication /\ handoff.output # o
  <2>1. configured \subseteq ToSet(surfaces) /\ o \notin ToSet(surfaces) /\ o # None
    BY <1>1, OutputAssumption DEF Inv, SurfaceInv
  <2>2. authentication \subseteq configured /\ handoff.output \in configured \cup {None}
    BY DEF Inv, RoleInv
  <2>3. QED
    BY <1>2, <2>1, <2>2
<1>5. RoleInv(configured', authentication \ {o}, role_pending \ {o}, handoff)
  BY <1>4 DEF Inv, RoleInv
<1>6. /\ ShowInv(authentication \ {o}, handoff, display', commits')
      /\ WallpaperInv(handoff, display', commits', outcomes')
      /\ OwedInv(handoff, commits', outcomes')
  BY <1>4 DEF Inv, compVars, ShowInv, WallpaperInv, OwedInv
<1>7. /\ pc' \in {"dispatch", "turn", "render"} /\ listed' \in SUBSET Output
      /\ named' \in SUBSET Output /\ commits' \in [Output -> Seq(Commit)]
      /\ configured' \subseteq ToSet(surfaces') /\ ToSet(surfaces') \subseteq listed'
      /\ plugged \subseteq listed'
  BY <1>1, <1>2, <1>3, <1>4 DEF Inv, TypeOK, SurfaceInv, compVars
<1>8. /\ plugged' = plugged /\ display' = display /\ commits' = commits
      /\ outcomes' = outcomes /\ nextFeedback' = nextFeedback
  BY DEF compVars
<1>9. refresh_authentication_output(surfaces', named', configured',
          authentication \ {o}, role_pending \ {o}, handoff)
  BY <1>2
<1>10. QED
  BY <1>3, <1>5, <1>6, <1>7, <1>8, <1>9, HandlerKeeps

\* A handler that leaves the surfaces alone but for their names and sizes, and
\* refreshes the role (new_output, update_output, configure).
LEMMA UpdateKeeps ==
    ASSUME Inv, UNCHANGED <<pc, listed, surfaces, compVars>>, fresh' \in SUBSET listed,
           named' \in SUBSET Output, configured \subseteq configured',
           configured' \subseteq ToSet(surfaces),
           refresh_authentication_output(surfaces, named', configured', authentication,
               role_pending, handoff)
    PROVE  Inv'
<1>1. RoleInv(configured', authentication, role_pending, handoff)
  BY DEF Inv, RoleInv
<1>2. /\ ShowInv(authentication, handoff, display', commits')
      /\ WallpaperInv(handoff, display', commits', outcomes')
      /\ OwedInv(handoff, commits', outcomes')
  BY DEF Inv, compVars, ShowInv, WallpaperInv, OwedInv
<1>3. /\ pc' \in {"dispatch", "turn", "render"} /\ listed' \in SUBSET Output
      /\ surfaces' \in Seq(Output) /\ IsInjective(surfaces')
      /\ commits' \in [Output -> Seq(Commit)]
      /\ configured' \subseteq ToSet(surfaces') /\ ToSet(surfaces') \subseteq listed'
      /\ plugged \subseteq listed'
  BY DEF Inv, TypeOK, SurfaceInv, compVars
<1>4. /\ plugged' = plugged /\ display' = display /\ commits' = commits
      /\ outcomes' = outcomes /\ nextFeedback' = nextFeedback /\ listed' = listed
  BY DEF compVars
<1>5. refresh_authentication_output(surfaces', named', configured', authentication,
          role_pending, handoff)
  OBVIOUS
<1>6. QED
  BY <1>1, <1>2, <1>3, <1>4, <1>5, HandlerKeeps

\* An output that is announced has its surface already or gets one now
\* (new_output).
LEMMA NewOutputKeeps ==
    ASSUME Inv, NEW o \in Output, new_output(o)
    PROVE  Inv'
<1>1. /\ o \in listed /\ fresh' \in SUBSET listed /\ UNCHANGED <<pc, listed, compVars>>
      /\ named \in SUBSET Output
  BY DEF new_output, Inv, TypeOK
<1>2. CASE HasSurface(o)
  <2>1. /\ named' \in {named, named \cup {o}} /\ UNCHANGED <<surfaces, configured>>
        /\ refresh_authentication_output(surfaces, named', configured, authentication,
               role_pending, handoff)
    BY <1>2 DEF new_output
  <2>2. configured' = configured /\ configured' \subseteq ToSet(surfaces)
    BY <2>1 DEF Inv, SurfaceInv
  <2>3. QED
    BY <1>1, <2>1, <2>2, UpdateKeeps
<1>3. CASE ~HasSurface(o)
  BY <1>1, <1>3, AddSurfaceKeeps DEF new_output, HasSurface
<1>4. QED
  BY <1>2, <1>3

\* The name of an output becomes known (update_output).
LEMMA UpdateOutputKeeps ==
    ASSUME Inv, NEW o \in Output, update_output(o)
    PROVE  Inv'
<1>1. /\ UNCHANGED <<pc, listed, fresh, surfaces, configured, compVars>>
      /\ named' \in {named, named \cup {o}}
      /\ refresh_authentication_output(surfaces, named', configured, authentication,
             role_pending, handoff)
  BY DEF update_output
<1>2. /\ fresh' \in SUBSET listed /\ named' \in SUBSET Output /\ configured' = configured
      /\ configured' \subseteq ToSet(surfaces)
  BY <1>1 DEF Inv, TypeOK, SurfaceInv
<1>3. QED
  BY <1>1, <1>2, UpdateKeeps

\* The compositor gives a surface its size (configure).
LEMMA ConfigureKeeps ==
    ASSUME Inv, NEW o \in Output, configure(o)
    PROVE  Inv'
<1>1. /\ UNCHANGED <<pc, listed, fresh, surfaces, named, compVars>>
      /\ configured' = configured \cup {o} /\ o \in ToSet(surfaces)
      /\ refresh_authentication_output(surfaces, named, configured', authentication,
             role_pending, handoff)
  BY DEF configure
<1>2. /\ fresh' \in SUBSET listed /\ named' = named /\ named \in SUBSET Output
      /\ configured' \subseteq ToSet(surfaces)
  BY <1>1 DEF Inv, TypeOK, SurfaceInv
<1>3. QED
  BY <1>1, <1>2, UpdateKeeps

\* An output that goes takes its surface, its role and its handoff with it
\* (output_destroyed).
LEMMA OutputDestroyedKeeps ==
    ASSUME Inv, NEW o \in Output, output_destroyed(o)
    PROVE  Inv'
<1> DEFINE h == HandoffWithout(o)
<1>1. /\ surfaces' \in Seq(Output) /\ IsInjective(surfaces')
      /\ ToSet(surfaces') = ToSet(surfaces) \ {o}
  BY Retained DEF Inv, TypeOK, output_destroyed
<1>2. /\ o \in listed /\ o \notin plugged /\ listed' = listed \ {o} /\ fresh' = fresh \ {o}
      /\ named' = named \ {o} /\ configured' = configured \ {o}
      /\ commits' = [commits EXCEPT ![o] = <<>>]
      /\ UNCHANGED <<pc, plugged, display, outcomes, nextFeedback>>
      /\ refresh_authentication_output(surfaces', named', configured',
             authentication \ {o}, role_pending \ {o}, h)
  BY DEF output_destroyed
<1>3. /\ commits' \in [Output -> Seq(Commit)] /\ commits'[o] = << >>
      /\ \A p \in Output : p # o => commits'[p] = commits[p]
  BY <1>2 DEF Inv, TypeOK
<1>4. \/ h.output = None /\ handoff.output = o /\ h = NoHandoff
      \/ h = handoff /\ handoff.output # o
  BY DEF HandoffWithout, NoHandoff
<1>5. RoleInv(configured', authentication \ {o}, role_pending \ {o}, h)
  <2>1. CASE h = NoHandoff
    <3>1. /\ h.output = None /\ h.phase = "None" /\ h.feedback = 0 /\ h.overdue = FALSE
          /\ h \in Handoffs
      BY <2>1 DEF NoHandoff, Handoffs
    <3> HIDE DEF h
    <3>2. QED
      BY <1>2, <3>1 DEF Inv, RoleInv
  <2>2. CASE h = handoff /\ handoff.output # o
    <3> HIDE DEF h
    <3>1. QED
      BY <1>2, <2>2 DEF Inv, RoleInv
  <2>3. QED
    BY <1>4, <2>1, <2>2
<1> HIDE DEF h
<1>6. display[o] = "none"
  BY <1>2 DEF Inv, SurfaceInv
<1>7. ShowInv(authentication \ {o}, h, display', commits')
  <2>1. ASSUME NEW p \in Output, MayShow(display'[p], commits'[p])
        PROVE  p \in authentication \ {o} \/ p = h.output
    <3>1. p # o
      BY <1>2, <1>3, <1>6, <2>1 DEF MayShow
    <3>2. MayShow(display[p], commits[p])
      BY <1>2, <1>3, <2>1, <3>1
    <3>3. QED
      BY <1>4, <3>1, <3>2 DEF Inv, ShowInv
  <2>2. QED
    BY <2>1 DEF ShowInv
<1>8. WallpaperInv(h, display', commits', outcomes')
  <2>1. CASE h.output = None /\ h = NoHandoff
    BY <2>1 DEF WallpaperInv, NoHandoff
  <2>2. CASE h = handoff /\ handoff.output # o
    <3>1. handoff.feedback # 0 => handoff.output \in Output
      BY OutputAssumption DEF Inv, RoleInv, Handoffs
    <3>2. QED
      BY <1>2, <1>3, <2>2, <3>1 DEF Inv, WallpaperInv
  <2>3. QED
    BY <1>4, <2>1, <2>2
<1>9. OwedInv(h, commits', outcomes')
  <2>1. CASE h.output = None /\ h = NoHandoff
    BY <2>1 DEF OwedInv, NoHandoff
  <2>2. CASE h = handoff /\ handoff.output # o
    <3>1. handoff.phase = "AwaitingPresentation" => handoff.output \in Output
      BY DEF Inv, RoleInv, Handoffs
    <3>2. QED
      BY <1>2, <1>3, <2>2, <3>1 DEF Inv, OwedInv
  <2>3. QED
    BY <1>4, <2>1, <2>2
<1>10. /\ pc' \in {"dispatch", "turn", "render"} /\ listed' \in SUBSET Output
       /\ fresh' \in SUBSET listed' /\ named' \in SUBSET Output
       /\ configured' \subseteq ToSet(surfaces') /\ ToSet(surfaces') \subseteq listed'
       /\ plugged' = plugged /\ plugged \subseteq listed'
  BY <1>1, <1>2 DEF Inv, TypeOK, SurfaceInv
<1>11. /\ display' = display /\ outcomes' \subseteq outcomes /\ nextFeedback' = nextFeedback
       /\ \A p \in Output : commits'[p] = commits[p] \/ commits'[p] = << >>
  BY <1>2, <1>3
<1>12. QED
  BY <1>1, <1>2, <1>3, <1>5, <1>7, <1>8, <1>9, <1>10, <1>11, HandlerKeeps

\* A presentation that is awaited ends the handoff: authentication is not on the
\* retiring output any more, nor under way to it (presented).
LEMMA PresentedKeeps ==
    ASSUME Inv, presented
    PROVE  Inv'
<1>1. PICK f \in 1 .. nextFeedback - 1 :
        /\ Dispatching /\ [feedback |-> f, kind |-> "presented"] \in outcomes
        /\ outcomes' = outcomes \ {[feedback |-> f, kind |-> "presented"]}
        /\ IF AcceptsPresentation(f)
             THEN refresh_authentication_output(surfaces, named, configured,
                      authentication, role_pending, NoHandoff)
             ELSE UNCHANGED roleVars
        /\ UNCHANGED <<pc, surfVars, plugged, display, commits, nextFeedback>>
  BY DEF presented
<1>2. /\ listed' = listed /\ fresh' = fresh /\ surfaces' = surfaces /\ named' = named
      /\ configured' = configured /\ pc' = pc /\ plugged' = plugged /\ display' = display
      /\ commits' = commits /\ nextFeedback' = nextFeedback /\ outcomes' \subseteq outcomes
  BY <1>1 DEF surfVars
<1>3. nextFeedback \in Nat /\ f # 0
  BY <1>1 DEF Inv, TypeOK
<1>4. CASE AcceptsPresentation(f)
  <2>1. handoff.feedback = f /\ handoff.phase = "AwaitingPresentation"
    BY <1>4 DEF AcceptsPresentation
  <2>2. ~MayShow(display[handoff.output], commits[handoff.output])
    BY <1>1, <1>3, <2>1 DEF Inv, WallpaperInv
  <2>3. /\ NoHandoff \in Handoffs /\ NoHandoff.output = None /\ NoHandoff.phase = "None"
        /\ NoHandoff.feedback = 0 /\ NoHandoff.overdue = FALSE
    BY DEF NoHandoff, Handoffs
  <2>4. RoleInv(configured', authentication, role_pending, NoHandoff)
    BY <1>2, <2>3 DEF Inv, RoleInv
  <2>5. ShowInv(authentication, NoHandoff, display', commits')
    BY <1>2, <2>2 DEF Inv, ShowInv
  <2>6. /\ WallpaperInv(NoHandoff, display', commits', outcomes')
        /\ OwedInv(NoHandoff, commits', outcomes')
    BY <2>3 DEF WallpaperInv, OwedInv
  <2>7. /\ pc' \in {"dispatch", "turn", "render"} /\ listed' \in SUBSET Output
        /\ fresh' \in SUBSET listed' /\ surfaces' \in Seq(Output) /\ IsInjective(surfaces')
        /\ named' \in SUBSET Output /\ commits' \in [Output -> Seq(Commit)]
        /\ configured' \subseteq ToSet(surfaces') /\ ToSet(surfaces') \subseteq listed'
        /\ plugged \subseteq listed'
    BY <1>2 DEF Inv, TypeOK, SurfaceInv
  <2>8. refresh_authentication_output(surfaces', named', configured', authentication,
            role_pending, NoHandoff)
    BY <1>1, <1>2, <1>4
  <2>9. QED
    BY <1>2, <2>4, <2>5, <2>6, <2>7, <2>8, HandlerKeeps
<1>5. CASE ~AcceptsPresentation(f)
  <2>1. /\ authentication' = authentication /\ role_pending' = role_pending
        /\ handoff' = handoff
    BY <1>1, <1>5 DEF roleVars
  <2>2. handoff.phase = "AwaitingPresentation" => handoff.feedback # f
    BY <1>5 DEF AcceptsPresentation
  <2>3. OwedInv(handoff', commits', outcomes')
    BY <1>1, <1>2, <2>1, <2>2 DEF Inv, OwedInv
  <2>4. TypeOK'
    BY <1>2, <2>1 DEF Inv, TypeOK
  <2>5. SurfaceInv' /\ NumberInv'
    BY <1>2 DEF Inv, SurfaceInv, NumberInv
  <2>6. WallpaperInv(handoff, display, commits, outcomes)'
    BY <1>2, <2>1 DEF Inv, WallpaperInv
  <2>7. QED
    BY <1>2, <2>1, <2>3, <2>4, <2>5, <2>6 DEF Inv, RoleInv, ShowInv, OwedInv
<1>6. QED
  BY <1>4, <1>5

\* A wallpaper that was superseded is committed again (discarded).
LEMMA DiscardedKeeps ==
    ASSUME Inv, discarded
    PROVE  Inv'
<1>1. PICK f \in 1 .. nextFeedback - 1 :
        /\ outcomes' = outcomes \ {[feedback |-> f, kind |-> "discarded"]}
        /\ IF handoff.feedback = f
             THEN handoff' = discarded_retirement /\ RequestAgain(handoff.output)
             ELSE UNCHANGED <<handoff, role_pending>>
        /\ UNCHANGED <<pc, surfVars, authentication, plugged, display, commits, nextFeedback>>
  BY DEF discarded
<1>2. /\ listed' = listed /\ fresh' = fresh /\ surfaces' = surfaces /\ named' = named
      /\ configured' = configured /\ pc' = pc /\ plugged' = plugged /\ display' = display
      /\ commits' = commits /\ nextFeedback' = nextFeedback /\ outcomes' \subseteq outcomes
      /\ authentication' = authentication
  BY <1>1 DEF surfVars
<1>3. nextFeedback \in Nat /\ f # 0
  BY <1>1 DEF Inv, TypeOK
<1>4. SurfaceInv' /\ NumberInv'
  BY <1>2 DEF Inv, SurfaceInv, NumberInv
<1>5. CASE handoff.feedback = f
  <2>1. handoff.phase = "AwaitingPresentation" /\ handoff \in Handoffs
    BY <1>3, <1>5 DEF Inv, RoleInv
  <2>2. handoff.output \in Output /\ handoff.output # None
    BY <2>1 DEF Inv, RoleInv, Handoffs
  <2>3. /\ handoff' \in Handoffs /\ handoff'.output = handoff.output
        /\ handoff'.phase = "AwaitingCommit" /\ handoff'.feedback = 0
        /\ role_pending' = role_pending \cup {handoff.output}
    BY <1>1, <1>5, <2>1 DEF discarded_retirement, RequestAgain, Handoffs
  <2>4. RoleInv(configured, authentication, role_pending, handoff)'
    BY <1>2, <2>1, <2>2, <2>3 DEF Inv, RoleInv
  <2>5. TypeOK'
    BY <1>2, <2>2, <2>3 DEF Inv, TypeOK, Handoffs
  <2>6. ShowInv(authentication, handoff, display, commits)'
    BY <1>2, <2>3 DEF Inv, ShowInv
  <2>7. WallpaperInv(handoff, display, commits, outcomes)' /\ OwedInv(handoff, commits, outcomes)'
    BY <2>3 DEF WallpaperInv, OwedInv
  <2>8. QED
    BY <1>4, <2>4, <2>5, <2>6, <2>7 DEF Inv
<1>6. CASE handoff.feedback # f
  <2>1. handoff' = handoff /\ role_pending' = role_pending
    BY <1>1, <1>6
  <2>2. OwedInv(handoff, commits, outcomes)'
    BY <1>1, <1>2, <1>6, <2>1 DEF Inv, OwedInv
  <2>3. TypeOK'
    BY <1>2, <2>1 DEF Inv, TypeOK
  <2>4. WallpaperInv(handoff, display, commits, outcomes)'
    BY <1>2, <2>1 DEF Inv, WallpaperInv
  <2>5. QED
    BY <1>2, <1>4, <2>1, <2>2, <2>3, <2>4 DEF Inv, RoleInv, ShowInv
<1>7. QED
  BY <1>5, <1>6

\* The deadline of a handoff changes nothing yet.
LEMMA DeadlineKeeps ==
    ASSUME Inv, Deadline
    PROVE  Inv'
<1>1. /\ handoff \in Handoffs /\ handoff.phase # "None"
      /\ handoff'.output = handoff.output /\ handoff'.phase = handoff.phase
      /\ handoff'.feedback = handoff.feedback /\ handoff'.overdue = TRUE
      /\ handoff' \in Handoffs
  <2>1. handoff \in Handoffs /\ handoff # NoHandoff
    BY DEF Inv, RoleInv, Deadline
  <2>2. handoff.phase # "None"
    BY <2>1 DEF Inv, RoleInv, NoHandoff, Handoffs
  <2>3. QED
    BY <2>1, <2>2 DEF Deadline, Handoffs
<1>2. UNCHANGED <<pc, listed, fresh, surfaces, named, configured, authentication, role_pending,
                  plugged, display, commits, outcomes, nextFeedback>>
  BY DEF Deadline, surfVars, compVars
<1>3. TypeOK'
  BY <1>1, <1>2 DEF Inv, TypeOK, Handoffs
<1>4. SurfaceInv' /\ NumberInv'
  BY <1>2 DEF Inv, SurfaceInv, NumberInv
<1>5. RoleInv(configured, authentication, role_pending, handoff)'
  BY <1>1, <1>2 DEF Inv, RoleInv
<1>6. /\ ShowInv(authentication, handoff, display, commits)'
      /\ WallpaperInv(handoff, display, commits, outcomes)'
      /\ OwedInv(handoff, commits, outcomes)'
  BY <1>1, <1>2 DEF Inv, ShowInv, WallpaperInv, OwedInv
<1>7. QED
  BY <1>3, <1>4, <1>5, <1>6 DEF Inv

\* The role goes to a surface while no other has it and no handoff is under way
\* any more: back to the one that was to retire (expire_authentication_retirement,
\* render).
LEMMA RestoreKeeps ==
    ASSUME Inv, handoff.output # None, pc' \in {"dispatch", "turn", "render"},
           authentication' = authentication \cup {handoff.output}, handoff' = NoHandoff,
           role_pending' \in SUBSET Output, UNCHANGED <<surfVars, compVars>>
    PROVE  Inv'
<1>1. /\ handoff' \in Handoffs /\ handoff'.output = None /\ handoff'.phase = "None"
      /\ handoff'.feedback = 0 /\ handoff'.overdue = FALSE
  BY DEF NoHandoff, Handoffs
<1>2. UNCHANGED <<listed, fresh, surfaces, named, configured, plugged, display, commits,
                  outcomes, nextFeedback>>
  BY DEF surfVars, compVars
<1>3. authentication = {} /\ handoff.output \in configured
  BY DEF Inv, RoleInv
<1>4. TypeOK'
  BY <1>1, <1>2, <1>3 DEF Inv, TypeOK, Handoffs
<1>5. SurfaceInv' /\ NumberInv'
  BY <1>2 DEF Inv, SurfaceInv, NumberInv
<1>6. RoleInv(configured, authentication, role_pending, handoff)'
  BY <1>1, <1>2, <1>3 DEF RoleInv
<1>7. ShowInv(authentication, handoff, display, commits)'
  BY <1>1, <1>2, <1>3 DEF Inv, ShowInv
<1>8. WallpaperInv(handoff, display, commits, outcomes)' /\ OwedInv(handoff, commits, outcomes)'
  BY <1>1 DEF WallpaperInv, OwedInv
<1>9. QED
  BY <1>4, <1>5, <1>6, <1>7, <1>8 DEF Inv

\* A step that only moves the loop on.
LEMMA LoopKeeps ==
    ASSUME Inv, pc' \in {"dispatch", "turn", "render"}, UNCHANGED <<surfVars, roleVars, compVars>>
    PROVE  Inv'
<1>1. UNCHANGED <<listed, fresh, surfaces, named, configured, authentication, role_pending,
                  handoff, plugged, display, commits, outcomes, nextFeedback>>
  BY DEF surfVars, roleVars, compVars
<1>2. TypeOK'
  BY <1>1 DEF Inv, TypeOK
<1>3. SurfaceInv' /\ NumberInv'
  BY <1>1 DEF Inv, SurfaceInv, NumberInv
<1>4. QED
  BY <1>1, <1>2, <1>3 DEF Inv, RoleInv, ShowInv, WallpaperInv, OwedInv

\* A handoff that took too long gives the role back; its surface still exists, so
\* the role is never refreshed instead (expire_authentication_retirement).
LEMMA ExpireKeeps ==
    ASSUME Inv, expire_authentication_retirement
    PROVE  Inv'
<1>1. UNCHANGED <<surfVars, compVars>> /\ pc' \in {"dispatch", "turn", "render"}
  BY DEF expire_authentication_retirement
<1>2. CASE ~handoff.overdue
  BY <1>1, <1>2, LoopKeeps DEF expire_authentication_retirement
<1>3. CASE handoff.overdue
  <2>1. handoff.output # None
    BY <1>3 DEF Inv, RoleInv
  <2>2. handoff.output \in ToSet(surfaces) \cap configured
    BY <2>1 DEF Inv, RoleInv, SurfaceInv
  <2>3. handoff' = NoHandoff /\ RestoreRetired
    BY <1>3, <2>2 DEF expire_authentication_retirement
  <2>4. role_pending' \in SUBSET Output
    BY <2>1, <2>3 DEF RestoreRetired, set_authentication, Inv, RoleInv, TypeOK
  <2>5. QED
    BY <1>1, <2>1, <2>3, <2>4, RestoreKeeps DEF RestoreRetired
<1>4. QED
  BY <1>2, <1>3

\* reconcile_outputs makes one of the surfaces that are missing.
LEMMA ReconcileKeeps ==
    ASSUME Inv, reconcile_outputs
    PROVE  Inv'
<1>1. PICK o \in listed \ ToSet(surfaces) : add_surface(o)
  BY DEF reconcile_outputs
<1>2. pc' = pc /\ listed' = listed /\ fresh' \in SUBSET listed /\ UNCHANGED compVars
  BY DEF reconcile_outputs, Inv, TypeOK
<1>3. QED
  BY <1>1, <1>2, AddSurfaceKeeps

\* The commits of o once another is made.
LEMMA CommitAdded ==
    ASSUME commits \in [Output -> Seq(Commit)], NEW o \in Output, NEW c \in Commit,
           commits' = [commits EXCEPT ![o] = Append(@, c)]
    PROVE  /\ commits' \in [Output -> Seq(Commit)]
           /\ \A p \in Output : p # o => commits'[p] = commits[p]
           /\ Len(commits[o]) \in Nat /\ Len(commits'[o]) = Len(commits[o]) + 1
           /\ \A i \in 1 .. Len(commits[o]) : commits'[o][i] = commits[o][i]
           /\ commits'[o][Len(commits[o]) + 1] = c
<1>1. commits[o] \in Seq(Commit) /\ commits'[o] = Append(commits[o], c)
  OBVIOUS
<1>2. /\ Append(commits[o], c) \in Seq(Commit)
      /\ Len(Append(commits[o], c)) = Len(commits[o]) + 1 /\ Len(commits[o]) \in Nat
      /\ \A i \in 1 .. Len(commits[o]) : Append(commits[o], c)[i] = commits[o][i]
      /\ Append(commits[o], c)[Len(commits[o]) + 1] = c
  BY <1>1, AppendProperties, LenProperties
<1>3. QED
  BY <1>1, <1>2

\* A surface that does not retire commits its role (render).
LEMMA CommitKeeps ==
    ASSUME Inv, NEW o \in Output, ~Retiring(o),
           NEW role, role = IF o \in authentication THEN "authentication" ELSE "wallpaper",
           commits' = [commits EXCEPT ![o] = Append(@, [role |-> role, feedback |-> 0])],
           role_pending' = role_pending \ {o},
           UNCHANGED <<pc, surfVars, authentication, handoff, plugged, display, outcomes,
                       nextFeedback>>
    PROVE  Inv'
<1> DEFINE c == [role |-> role, feedback |-> 0]
           n == Len(commits[o])
<1>1. c \in Commit /\ c.role = role /\ c.feedback = 0
  BY DEF Commit, Roles
<1>2. /\ commits' \in [Output -> Seq(Commit)]
      /\ \A p \in Output : p # o => commits'[p] = commits[p]
      /\ n \in Nat /\ Len(commits'[o]) = n + 1
      /\ \A i \in 1 .. n : commits'[o][i] = commits[o][i]
      /\ commits'[o][n + 1] = c
  BY <1>1, CommitAdded DEF Inv, TypeOK
<1> HIDE DEF c, n
<1>3. UNCHANGED <<listed, fresh, surfaces, named, configured>>
  BY DEF surfVars
<1>4. TypeOK'
  BY <1>2, <1>3 DEF Inv, TypeOK
<1>5. SurfaceInv'
  BY <1>3 DEF Inv, SurfaceInv
<1>6. NumberInv'
  <2>1. nextFeedback \in Nat /\ nextFeedback # 0 /\ 0 < nextFeedback
    BY DEF Inv, TypeOK, NumberInv
  <2>2. ASSUME NEW p \in Output, NEW i \in 1 .. Len(commits'[p])
        PROVE  commits'[p][i].feedback < nextFeedback
    <3>1. CASE p # o
      BY <1>2, <3>1 DEF Inv, NumberInv
    <3>2. CASE p = o
      <4>1. i \in 1 .. n \/ i = n + 1
        BY <1>2, <3>2
      <4>2. CASE i = n + 1
        BY <1>1, <1>2, <2>1, <3>2, <4>2
      <4>3. CASE i \in 1 .. n
        BY <1>2, <3>2, <4>3 DEF Inv, NumberInv, n
      <4>4. QED
        BY <4>1, <4>2, <4>3
    <3>3. QED
      BY <3>1, <3>2
  <2>3. QED
    BY <2>1, <2>2 DEF Inv, NumberInv
<1>7. RoleInv(configured, authentication, role_pending, handoff)'
  <2>1. handoff.phase = "AwaitingCommit" => handoff.output \in role_pending'
    BY DEF Inv, RoleInv, Retiring
  <2>2. QED
    BY <1>3, <2>1 DEF Inv, RoleInv
<1>8. ShowInv(authentication, handoff, display, commits)'
  <2>1. ASSUME NEW p \in Output, MayShow(display'[p], commits'[p])
        PROVE  p \in authentication \/ p = handoff.output
    <3>1. CASE p # o
      BY <1>2, <2>1, <3>1 DEF Inv, ShowInv
    <3>2. CASE p = o /\ o \notin authentication
      <4>1. MayShow(display[o], commits[o])
        <5>1. c.role # "authentication"
          BY <1>1, <3>2
        <5>2. \A i \in 1 .. n + 1 : commits'[o][i].role = "authentication" =>
                i \in 1 .. n /\ commits[o][i].role = "authentication"
          BY <1>2, <5>1
        <5>3. QED
          BY <1>2, <2>1, <3>2, <5>2 DEF MayShow, n
      <4>2. QED
        BY <3>2, <4>1 DEF Inv, ShowInv
    <3>3. QED
      BY <3>1, <3>2
  <2>2. QED
    BY <2>1 DEF ShowInv
<1>9. WallpaperInv(handoff, display, commits, outcomes)'
  <2>1. SUFFICES ASSUME handoff.feedback # 0
                 PROVE  WallpaperInv(handoff, display, commits, outcomes)'
    BY DEF WallpaperInv
  <2>2. handoff.output # None /\ authentication = {} /\ role = "wallpaper"
    BY <2>1 DEF Inv, RoleInv
  <2>3. ASSUME NEW p \in Output, NEW i \in 1 .. Len(commits'[p]),
               commits'[p][i].feedback = handoff.feedback
        PROVE  /\ p = handoff.output
               /\ \A j \in i .. Len(commits'[p]) : commits'[p][j].role = "wallpaper"
    <3>1. CASE p # o
      BY <1>2, <2>1, <2>3, <3>1 DEF Inv, WallpaperInv
    <3>2. CASE p = o
      <4>1. i \in 1 .. n
        BY <1>1, <1>2, <2>1, <2>3, <3>2
      <4>2. commits[o][i].feedback = handoff.feedback
        BY <1>2, <2>3, <3>2, <4>1
      <4>3. o = handoff.output /\ \A j \in i .. n : commits[o][j].role = "wallpaper"
        BY <2>1, <4>1, <4>2 DEF Inv, WallpaperInv, n
      <4>4. ASSUME NEW j \in i .. n + 1
            PROVE  commits'[o][j].role = "wallpaper"
        BY <1>1, <1>2, <2>2, <4>1, <4>3
      <4>5. QED
        BY <1>2, <3>2, <4>3, <4>4
    <3>3. QED
      BY <3>1, <3>2
  <2>4. ASSUME [feedback |-> handoff.feedback, kind |-> "presented"] \in outcomes
        PROVE  ~MayShow(display'[handoff.output], commits'[handoff.output])
    <3>1. ~MayShow(display[handoff.output], commits[handoff.output])
      BY <2>1, <2>4 DEF Inv, WallpaperInv
    <3>2. handoff.output \in Output
      BY <2>2 DEF Inv, RoleInv, Handoffs
    <3>3. CASE handoff.output # o
      BY <1>2, <3>1, <3>2, <3>3
    <3>4. CASE handoff.output = o
      <4>1. \A i \in 1 .. n + 1 : commits'[o][i].role # "authentication"
        BY <1>1, <1>2, <2>2, <3>1, <3>4 DEF MayShow, n
      <4>2. QED
        BY <1>2, <3>1, <3>4, <4>1 DEF MayShow
    <3>5. QED
      BY <3>3, <3>4
  <2>5. handoff.feedback < nextFeedback
    BY <2>1 DEF Inv, WallpaperInv
  <2>6. QED
    BY <2>3, <2>4, <2>5 DEF WallpaperInv
<1>10. OwedInv(handoff, commits, outcomes)'
  <2>1. SUFFICES ASSUME handoff.phase = "AwaitingPresentation"
                 PROVE  OwedInv(handoff, commits, outcomes)'
    BY DEF OwedInv
  <2>2. handoff.output \in Output /\ handoff.feedback # 0
    BY <2>1 DEF Inv, RoleInv, Handoffs, OwedInv
  <2>3. CASE \E e \in outcomes : e.feedback = handoff.feedback
    BY <2>2, <2>3 DEF OwedInv
  <2>4. CASE \E i \in 1 .. Len(commits[handoff.output]) :
                 commits[handoff.output][i].feedback = handoff.feedback
    <3>1. PICK i \in 1 .. Len(commits[handoff.output]) :
                 commits[handoff.output][i].feedback = handoff.feedback
      BY <2>4
    <3>2. /\ i \in 1 .. Len(commits'[handoff.output])
          /\ commits'[handoff.output][i].feedback = handoff.feedback
      BY <1>2, <2>2, <3>1 DEF n
    <3>3. QED
      BY <2>2, <3>2 DEF OwedInv
  <2>5. QED
    BY <2>1, <2>3, <2>4 DEF Inv, OwedInv
<1>11. QED
  BY <1>4, <1>5, <1>6, <1>7, <1>8, <1>9, <1>10 DEF Inv

\* The surface that retires commits its wallpaper and awaits its presentation
\* (render, AuthenticationRetirement::committed).
LEMMA RetirementKeeps ==
    ASSUME Inv, NEW o \in Output, Retiring(o),
           commits' = [commits EXCEPT ![o] = Append(@, [role |-> "wallpaper",
                                                        feedback |-> nextFeedback])],
           role_pending' = role_pending \ {o}, handoff' = committed(nextFeedback),
           nextFeedback' = nextFeedback + 1,
           UNCHANGED <<pc, surfVars, authentication, plugged, display, outcomes>>
    PROVE  Inv'
<1> DEFINE f == nextFeedback
           c == [role |-> "wallpaper", feedback |-> f]
           n == Len(commits[o])
<1>1. f \in Nat /\ f # 0 /\ f < nextFeedback' /\ nextFeedback' \in Nat /\ nextFeedback' # 0
  BY DEF Inv, TypeOK, NumberInv
<1>2. c \in Commit /\ c.role = "wallpaper" /\ c.feedback = f
  BY <1>1 DEF Commit, Roles
<1>3. /\ commits' \in [Output -> Seq(Commit)]
      /\ \A p \in Output : p # o => commits'[p] = commits[p]
      /\ n \in Nat /\ Len(commits'[o]) = n + 1
      /\ \A i \in 1 .. n : commits'[o][i] = commits[o][i]
      /\ commits'[o][n + 1] = c
  BY <1>2, CommitAdded DEF Inv, TypeOK
<1>4. UNCHANGED <<listed, fresh, surfaces, named, configured>>
  BY DEF surfVars
<1>5. handoff \in Handoffs /\ handoff.output = o /\ o # None /\ None \notin Output
  BY OutputAssumption DEF Inv, RoleInv, Retiring
<1>6. /\ handoff' \in Handoffs /\ handoff'.output = o /\ handoff'.feedback = f
      /\ handoff'.phase = "AwaitingPresentation"
  BY <1>1, <1>5 DEF committed, Handoffs
<1>7. TypeOK'
  BY <1>1, <1>3, <1>4, <1>6 DEF Inv, TypeOK, Handoffs
<1>8. SurfaceInv'
  BY <1>4 DEF Inv, SurfaceInv
<1>9. \A p \in Output : \A i \in 1 .. Len(commits[p]) :
        commits[p][i].feedback < f /\ commits[p][i].feedback \in Nat
  <2>1. ASSUME NEW p \in Output, NEW i \in 1 .. Len(commits[p])
        PROVE  commits[p][i].feedback < f /\ commits[p][i].feedback \in Nat
    <3>1. commits[p] \in Seq(Commit) /\ commits[p][i] \in Commit
      BY DEF Inv, TypeOK
    <3>2. QED
      BY <3>1 DEF Inv, NumberInv, Commit
  <2>2. QED
    BY <2>1
<1>10. \A e \in outcomes : e.feedback < f /\ e.feedback \in Nat
  BY DEF Inv, NumberInv, TypeOK, Outcome
<1> HIDE DEF f, c, n
\* Where a commit of the new state comes from.
<1>11. ASSUME NEW p \in Output, NEW i \in 1 .. Len(commits'[p])
       PROVE  \/ i \in 1 .. Len(commits[p]) /\ commits'[p][i] = commits[p][i]
              \/ p = o /\ i = n + 1 /\ commits'[p][i] = c
  <2>1. CASE p # o
    BY <1>3, <2>1
  <2>2. CASE p = o
    <3>1. i \in 1 .. n \/ i = n + 1
      BY <1>3, <2>2
    <3>2. QED
      BY <1>3, <2>2, <3>1 DEF n
  <2>3. QED
    BY <2>1, <2>2
<1>12. NumberInv'
  <2>1. ASSUME NEW p \in Output, NEW i \in 1 .. Len(commits'[p])
        PROVE  commits'[p][i].feedback < nextFeedback'
    BY <1>1, <1>2, <1>9, <1>11 DEF f
  <2>2. \A e \in outcomes' : e.feedback < nextFeedback'
    BY <1>1, <1>10 DEF f
  <2>3. QED
    BY <1>1, <2>1, <2>2 DEF NumberInv
<1>13. RoleInv(configured, authentication, role_pending, handoff)'
  BY <1>4, <1>5, <1>6 DEF Inv, RoleInv
<1>14. \A p \in Output : MayShow(display'[p], commits'[p]) => MayShow(display[p], commits[p])
  <2>1. ASSUME NEW p \in Output, NEW i \in 1 .. Len(commits'[p]),
               commits'[p][i].role = "authentication"
        PROVE  i \in 1 .. Len(commits[p]) /\ commits[p][i].role = "authentication"
    BY <1>2, <1>11, <2>1
  <2>2. QED
    BY <2>1 DEF MayShow
<1>15. ShowInv(authentication, handoff, display, commits)'
  BY <1>5, <1>6, <1>14 DEF Inv, ShowInv
<1>16. WallpaperInv(handoff, display, commits, outcomes)'
  <2>1. ASSUME NEW p \in Output, NEW i \in 1 .. Len(commits'[p]), commits'[p][i].feedback = f
        PROVE  /\ p = o
               /\ \A j \in i .. Len(commits'[p]) : commits'[p][j].role = "wallpaper"
    <3>1. p = o /\ i = n + 1
      BY <1>1, <1>9, <1>11, <2>1
    <3>2. i .. Len(commits'[o]) = {n + 1}
      BY <1>3, <3>1
    <3>3. QED
      BY <1>2, <1>3, <3>1, <3>2
  <2>2. [feedback |-> f, kind |-> "presented"] \notin outcomes'
    <3>1. SUFFICES ASSUME [feedback |-> f, kind |-> "presented"] \in outcomes PROVE FALSE
      OBVIOUS
    <3>2. [feedback |-> f, kind |-> "presented"].feedback < f
      BY <1>10, <3>1
    <3>3. QED
      BY <1>1, <3>2
  <2>3. QED
    BY <1>1, <1>6, <2>1, <2>2 DEF WallpaperInv
<1>17. OwedInv(handoff, commits, outcomes)'
  <2>1. n + 1 \in 1 .. Len(commits'[o]) /\ commits'[o][n + 1].feedback = f
    BY <1>2, <1>3
  <2>2. QED
    BY <1>1, <1>6, <2>1 DEF OwedInv
<1>18. QED
  BY <1>7, <1>8, <1>12, <1>13, <1>15, <1>16, <1>17 DEF Inv

\* render commits the role of a surface, or gives it back when the presentation
\* of its wallpaper cannot be reported.
LEMMA RenderKeeps ==
    ASSUME Inv, NEW o \in Output, render(o)
    PROVE  Inv'
<1> DEFINE role == IF o \in authentication THEN "authentication" ELSE "wallpaper"
<1>1. UNCHANGED <<pc, surfVars, plugged, display, outcomes>>
  BY DEF render
<1>2. CASE ~Retiring(o)
  <2>1. /\ commits' = [commits EXCEPT ![o] = Append(@, [role |-> role, feedback |-> 0])]
        /\ role_pending' = role_pending \ {o}
        /\ UNCHANGED <<authentication, handoff, nextFeedback>>
    BY <1>2 DEF render
  <2> HIDE DEF role
  <2>2. role = IF o \in authentication THEN "authentication" ELSE "wallpaper"
    BY DEF role
  <2>3. QED
    BY <1>1, <1>2, <2>1, <2>2, CommitKeeps
<1>3. CASE /\ Retiring(o) /\ authentication' = authentication \cup {o} /\ handoff' = NoHandoff
           /\ UNCHANGED <<role_pending, commits, nextFeedback>>
  <2>1. handoff.output = o /\ o # None
    BY <1>3, OutputAssumption DEF Retiring
  <2>2. pc' \in {"dispatch", "turn", "render"} /\ role_pending' \in SUBSET Output
    BY <1>1, <1>3 DEF Inv, TypeOK
  <2>3. UNCHANGED <<surfVars, compVars>>
    BY <1>1, <1>3 DEF compVars
  <2>4. QED
    BY <1>3, <2>1, <2>2, <2>3, RestoreKeeps
<1>4. CASE /\ Retiring(o)
           /\ commits' = [commits EXCEPT ![o] = Append(@, [role |-> role,
                                                           feedback |-> nextFeedback])]
           /\ role_pending' = role_pending \ {o} /\ UNCHANGED authentication
           /\ handoff' = committed(nextFeedback) /\ nextFeedback' = nextFeedback + 1
  <2>1. role = "wallpaper"
    BY <1>4 DEF Retiring
  <2>2. QED
    BY <1>1, <1>4, <2>1, RetirementKeeps
<1>5. QED
  BY <1>2, <1>3, <1>4 DEF render

\* The feedback of the commits s (FeedbackOf).
LEMMA FeedbackIsOfACommit ==
    ASSUME NEW s \in Seq(Commit), NEW f
    PROVE  f \in FeedbackOf(s) <=> f # 0 /\ \E i \in 1 .. Len(s) : s[i].feedback = f
<1>1. DOMAIN s = 1 .. Len(s)
  OBVIOUS
<1>2. QED
  BY <1>1 DEF FeedbackOf

\* The compositor is done with the first k commits of o: it shows the last of them
\* or nothing, and reports of their feedback D as discarded and P as presented.
Settles(o, k, D, P) ==
    /\ commits' \in [Output -> Seq(Commit)]
    /\ \A p \in Output : p # o => commits'[p] = commits[p] /\ display'[p] = display[p]
    /\ Len(commits'[o]) + k = Len(commits[o])
    /\ \A i \in 1 .. Len(commits'[o]) :
           i + k \in 1 .. Len(commits[o]) /\ commits'[o][i] = commits[o][i + k]
    /\ display' \in [Output -> Roles \cup {"none"}]
    /\ \/ display'[o] = "none"
       \/ k \in 1 .. Len(commits[o]) /\ display'[o] = commits[o][k].role
    /\ D \in SUBSET Nat /\ P \in SUBSET Nat
    /\ \A f \in P : /\ k \in 1 .. Len(commits[o]) /\ f = commits[o][k].feedback
                    /\ display'[o] = commits[o][k].role
    /\ D \cup P = {f \in Nat : f # 0 /\ \E i \in 1 .. k : commits[o][i].feedback = f}
    /\ outcomes' = outcomes \cup Discarded(D)
                     \cup {[feedback |-> f, kind |-> "presented"] : f \in P}
    /\ plugged' \subseteq plugged /\ \A p \in Output : display'[p] # "none" => p \in plugged'
    /\ UNCHANGED <<pc, surfVars, roleVars, nextFeedback>>

\* Then what may be displayed only shrinks, and the fate of what is gone is
\* reported.
LEMMA CompositorKeeps ==
    ASSUME Inv, NEW o \in Output, NEW k \in Nat, NEW D, NEW P, Settles(o, k, D, P)
    PROVE  Inv'
<1> USE DEF Settles
<1>1. UNCHANGED <<listed, fresh, surfaces, named, configured, authentication, role_pending, handoff>>
  BY DEF surfVars, roleVars
<1>2. /\ \A p \in Output : commits[p] \in Seq(Commit) /\ Len(commits[p]) \in Nat
      /\ \A p \in Output : commits'[p] \in Seq(Commit) /\ Len(commits'[p]) \in Nat
      /\ nextFeedback \in Nat
  BY DEF Inv, TypeOK
<1>3. outcomes' \subseteq Outcome
  BY DEF Inv, TypeOK, Outcome, Discarded
<1>4. TypeOK'
  BY <1>1, <1>3 DEF Inv, TypeOK
<1>5. SurfaceInv'
  BY <1>1 DEF Inv, SurfaceInv
<1>6. ASSUME NEW f \in D \cup P
      PROVE  f \in Nat /\ f # 0 /\ \E i \in 1 .. k : commits[o][i].feedback = f
  OBVIOUS
<1>7. k <= Len(commits[o])
  BY <1>2
\* Where a commit and an event of the new state come from.
<1>8. ASSUME NEW p \in Output, NEW i \in 1 .. Len(commits'[p])
      PROVE  \E j \in 1 .. Len(commits[p]) : commits'[p][i] = commits[p][j]
  <2>1. CASE p # o
    BY <2>1
  <2>2. CASE p = o
    <3>1. i + k \in 1 .. Len(commits[o]) /\ commits'[o][i] = commits[o][i + k]
      BY <2>2
    <3>2. QED
      BY <2>2, <3>1
  <2>3. QED
    BY <2>1, <2>2
<1>9. ASSUME NEW e \in outcomes'
      PROVE  e \in outcomes \/ e.feedback \in D \cup P
  BY DEF Discarded
<1>10. NumberInv'
  <2>1. ASSUME NEW f \in D \cup P
        PROVE  f < nextFeedback
    <3>1. PICK i \in 1 .. k : commits[o][i].feedback = f
      BY <1>6
    <3>2. i \in 1 .. Len(commits[o])
      BY <1>2, <1>7
    <3>3. QED
      BY <3>1, <3>2 DEF Inv, NumberInv
  <2>2. \A e \in outcomes' : e.feedback < nextFeedback
    BY <1>9, <2>1 DEF Inv, NumberInv
  <2>3. \A p \in Output : \A i \in 1 .. Len(commits'[p]) : commits'[p][i].feedback < nextFeedback
    <3>1. ASSUME NEW p \in Output, NEW i \in 1 .. Len(commits'[p])
          PROVE  commits'[p][i].feedback < nextFeedback
      <4>1. PICK j \in 1 .. Len(commits[p]) : commits'[p][i] = commits[p][j]
        BY <1>8
      <4>2. QED
        BY <4>1 DEF Inv, NumberInv
    <3>2. QED
      BY <3>1
  <2>4. QED
    BY <2>2, <2>3 DEF Inv, NumberInv
<1>11. RoleInv(configured, authentication, role_pending, handoff)'
  BY <1>1 DEF Inv, RoleInv
<1>12. ASSUME NEW p \in Output, MayShow(display'[p], commits'[p])
       PROVE  MayShow(display[p], commits[p])
  <2>1. CASE p # o
    BY <1>12, <2>1
  <2>2. CASE p = o
    <3>1. CASE display'[o] = "authentication"
      BY <3>1, <2>2 DEF MayShow
    <3>2. CASE \E i \in 1 .. Len(commits'[o]) : commits'[o][i].role = "authentication"
      <4>1. PICK i \in 1 .. Len(commits'[o]) : commits'[o][i].role = "authentication"
        BY <3>2
      <4>2. PICK j \in 1 .. Len(commits[o]) : commits'[o][i] = commits[o][j]
        BY <1>8
      <4>3. QED
        BY <2>2, <4>1, <4>2 DEF MayShow
    <3>3. QED
      BY <1>12, <2>2, <3>1, <3>2 DEF MayShow
  <2>3. QED
    BY <2>1, <2>2
<1>13. ShowInv(authentication, handoff, display, commits)'
  BY <1>1, <1>12 DEF Inv, ShowInv
<1>14. WallpaperInv(handoff, display, commits, outcomes)'
  <2>1. SUFFICES ASSUME handoff.feedback # 0
                 PROVE  WallpaperInv(handoff, display, commits, outcomes)'
    BY <1>1 DEF WallpaperInv
  <2>2. handoff.output \in Output
    BY <2>1, OutputAssumption DEF Inv, RoleInv, Handoffs
  <2>3. ASSUME NEW p \in Output, NEW i \in 1 .. Len(commits'[p]),
               commits'[p][i].feedback = handoff.feedback
        PROVE  /\ p = handoff.output
               /\ \A j \in i .. Len(commits'[p]) : commits'[p][j].role = "wallpaper"
    <3>1. CASE p # o
      BY <2>1, <2>3, <3>1 DEF Inv, WallpaperInv
    <3>2. CASE p = o
      <4>1. i + k \in 1 .. Len(commits[o]) /\ commits[o][i + k].feedback = handoff.feedback
        BY <2>3, <3>2
      <4>2. /\ o = handoff.output
            /\ \A j \in i + k .. Len(commits[o]) : commits[o][j].role = "wallpaper"
        BY <2>1, <4>1 DEF Inv, WallpaperInv
      <4>3. ASSUME NEW j \in i .. Len(commits'[o])
            PROVE  commits'[o][j].role = "wallpaper"
        <5>1. j \in 1 .. Len(commits'[o]) /\ j + k \in i + k .. Len(commits[o])
          BY <1>2, <3>2
        <5>2. QED
          BY <4>2, <5>1
      <4>4. QED
        BY <3>2, <4>2, <4>3
    <3>3. QED
      BY <3>1, <3>2
  <2>4. ASSUME [feedback |-> handoff.feedback, kind |-> "presented"] \in outcomes'
        PROVE  ~MayShow(display'[handoff.output], commits'[handoff.output])
    <3>1. CASE [feedback |-> handoff.feedback, kind |-> "presented"] \in outcomes
      BY <1>12, <2>1, <2>2, <3>1 DEF Inv, WallpaperInv
    <3>2. CASE handoff.feedback \in P
      <4>1. /\ k \in 1 .. Len(commits[o]) /\ commits[o][k].feedback = handoff.feedback
            /\ display'[o] = commits[o][k].role
        BY <3>2
      <4>2. /\ o = handoff.output
            /\ \A j \in k .. Len(commits[o]) : commits[o][j].role = "wallpaper"
        BY <2>1, <4>1 DEF Inv, WallpaperInv
      <4>3. display'[o] = "wallpaper"
        BY <1>2, <4>1, <4>2
      <4>4. ASSUME NEW i \in 1 .. Len(commits'[o])
            PROVE  commits'[o][i].role = "wallpaper"
        <5>1. i + k \in k .. Len(commits[o])
          BY <1>2
        <5>2. QED
          BY <4>2, <5>1
      <4>5. QED
        BY <4>2, <4>3, <4>4 DEF MayShow
    <3>3. [feedback |-> handoff.feedback, kind |-> "presented"] \notin Discarded(D)
      BY DEF Discarded
    <3>4. [feedback |-> handoff.feedback, kind |-> "presented"]
            \in {[feedback |-> f, kind |-> "presented"] : f \in P} => handoff.feedback \in P
      OBVIOUS
    <3>5. QED
      BY <2>4, <3>1, <3>2, <3>3, <3>4
  <2>5. handoff.feedback < nextFeedback
    BY <2>1 DEF Inv, WallpaperInv
  <2>6. QED
    BY <1>1, <2>3, <2>4, <2>5 DEF WallpaperInv
<1>15. OwedInv(handoff, commits, outcomes)'
  <2>1. SUFFICES ASSUME handoff.phase = "AwaitingPresentation"
                 PROVE  OwedInv(handoff, commits, outcomes)'
    BY <1>1 DEF OwedInv
  <2>2. handoff.output \in Output /\ handoff.feedback # 0 /\ handoff.feedback \in Nat
    BY <2>1 DEF Inv, RoleInv, Handoffs, OwedInv
  <2>3. CASE \E e \in outcomes : e.feedback = handoff.feedback
    BY <1>1, <2>2, <2>3 DEF OwedInv
  <2>4. CASE \E i \in 1 .. Len(commits[handoff.output]) :
                 commits[handoff.output][i].feedback = handoff.feedback
    <3>1. PICK i \in 1 .. Len(commits[handoff.output]) :
                 commits[handoff.output][i].feedback = handoff.feedback
      BY <2>4
    <3>2. CASE handoff.output # o
      BY <1>1, <2>2, <3>1, <3>2 DEF OwedInv
    <3>3. CASE handoff.output = o /\ i \in 1 .. k
      <4>1. handoff.feedback \in D \cup P
        BY <2>2, <3>1, <3>3
      <4>2. \E e \in outcomes' : e.feedback = handoff.feedback
        <5>1. CASE handoff.feedback \in D
          <6>1. [feedback |-> handoff.feedback, kind |-> "discarded"] \in outcomes'
            BY <5>1 DEF Discarded
          <6>2. QED
            BY <6>1
        <5>2. CASE handoff.feedback \in P
          <6>1. [feedback |-> handoff.feedback, kind |-> "presented"] \in outcomes'
            BY <5>2
          <6>2. QED
            BY <6>1
        <5>3. QED
          BY <4>1, <5>1, <5>2
      <4>3. QED
        BY <1>1, <2>2, <4>2 DEF OwedInv
    <3>4. CASE handoff.output = o /\ i \notin 1 .. k
      <4>1. i - k \in 1 .. Len(commits'[o]) /\ (i - k) + k = i
        BY <1>2, <3>1, <3>4
      <4>2. commits'[o][i - k].feedback = handoff.feedback
        BY <3>1, <3>4, <4>1
      <4>3. QED
        BY <1>1, <2>2, <3>4, <4>1, <4>2 DEF OwedInv
    <3>5. QED
      BY <3>2, <3>3, <3>4
  <2>5. QED
    BY <2>1, <2>3, <2>4 DEF Inv, OwedInv
<1>16. QED
  BY <1>4, <1>5, <1>10, <1>11, <1>13, <1>14, <1>15 DEF Inv

\* A commit reaches the screen (Display).
LEMMA DisplayKeeps ==
    ASSUME Inv, NEW o \in Output, Display(o)
    PROVE  Inv'
<1>1. PICK n \in DOMAIN commits[o] :
        LET c == commits[o][n] IN
        /\ o \in plugged
        /\ display' = [display EXCEPT ![o] = c.role]
        /\ commits' = [commits EXCEPT ![o] = SubSeq(@, n + 1, Len(@))]
        /\ outcomes' = outcomes
             \cup Discarded(FeedbackOf(SubSeq(commits[o], 1, n - 1)))
             \cup {[feedback |-> f, kind |-> "presented"] : f \in {c.feedback} \ {0}}
        /\ UNCHANGED <<pc, surfVars, roleVars, plugged, nextFeedback>>
  BY DEF Display
<1> DEFINE s == commits[o]
           D == FeedbackOf(SubSeq(s, 1, n - 1))
           P == {s[n].feedback} \ {0}
<1>2. /\ s \in Seq(Commit) /\ n \in 1 .. Len(s) /\ n \in Nat /\ Len(s) \in Nat
      /\ display \in [Output -> Roles \cup {"none"}] /\ commits \in [Output -> Seq(Commit)]
  BY DEF Inv, TypeOK
<1>3. \A i \in 1 .. Len(s) : s[i].feedback \in Nat /\ s[i].role \in Roles
  <2>1. \A i \in 1 .. Len(s) : s[i] \in Commit
    BY <1>2
  <2>2. QED
    BY <2>1 DEF Commit
<1>4. /\ SubSeq(s, n + 1, Len(s)) \in Seq(Commit)
      /\ Len(SubSeq(s, n + 1, Len(s))) = Len(s) - n
      /\ \A i \in 1 .. Len(s) - n : SubSeq(s, n + 1, Len(s))[i] = s[i + n]
  BY <1>2, Later
<1>5. /\ SubSeq(s, 1, n - 1) \in Seq(Commit) /\ Len(SubSeq(s, 1, n - 1)) = n - 1
      /\ \A i \in 1 .. n - 1 : SubSeq(s, 1, n - 1)[i] = s[i]
  BY <1>2, Earlier
<1>6. \A f : f \in D <=> f # 0 /\ \E i \in 1 .. n - 1 : s[i].feedback = f
  <2>1. \A f : f \in D <=> f # 0 /\ \E i \in 1 .. n - 1 : SubSeq(s, 1, n - 1)[i].feedback = f
    BY <1>5, FeedbackIsOfACommit
  <2>2. QED
    BY <1>5, <2>1
<1> HIDE DEF D
<1>7. D \in SUBSET Nat /\ P \in SUBSET Nat
  <2>1. \A i \in 1 .. n - 1 : i \in 1 .. Len(s)
    BY <1>2
  <2>2. QED
    BY <1>2, <1>3, <1>6, <2>1
<1>8. D \cup P = {f \in Nat : f # 0 /\ \E i \in 1 .. n : s[i].feedback = f}
  <2>1. ASSUME NEW f
        PROVE  f \in D \cup P <=> f # 0 /\ \E i \in 1 .. n : s[i].feedback = f
    <3>1. \A i : i \in 1 .. n <=> i \in 1 .. n - 1 \/ i = n
      BY <1>2
    <3>2. QED
      BY <1>6, <3>1
  <2>2. QED
    BY <1>7, <2>1
<1>9. /\ commits' \in [Output -> Seq(Commit)] /\ commits'[o] = SubSeq(s, n + 1, Len(s))
      /\ \A p \in Output : p # o => commits'[p] = commits[p] /\ display'[p] = display[p]
      /\ display'[o] = s[n].role /\ display' \in [Output -> Roles \cup {"none"}]
  BY <1>1, <1>2, <1>3, <1>4
<1>10. /\ Len(commits'[o]) + n = Len(s)
       /\ \A i \in 1 .. Len(commits'[o]) : i + n \in 1 .. Len(s) /\ commits'[o][i] = s[i + n]
  BY <1>2, <1>4, <1>9
<1>11. plugged' = plugged /\ \A p \in Output : display'[p] # "none" => p \in plugged'
  BY <1>1, <1>9 DEF Inv, SurfaceInv
<1>12. /\ outcomes' = outcomes \cup Discarded(D)
                        \cup {[feedback |-> f, kind |-> "presented"] : f \in P}
       /\ UNCHANGED <<pc, surfVars, roleVars, nextFeedback>>
  BY <1>1 DEF D
<1>13. \A f \in P : n \in 1 .. Len(s) /\ f = s[n].feedback /\ display'[o] = s[n].role
  BY <1>2, <1>9
<1> HIDE DEF P
<1>14. Settles(o, n, D, P)
  BY <1>2, <1>7, <1>8, <1>9, <1>10, <1>11, <1>12, <1>13 DEF Settles
<1>15. QED
  BY <1>2, <1>14, CompositorKeeps

\* An output is unplugged with all that was committed for it (Unplug).
LEMMA UnplugKeeps ==
    ASSUME Inv, NEW o \in Output, Unplug(o)
    PROVE  Inv'
<1> DEFINE s == commits[o]
           D == FeedbackOf(s)
           P == {}
           k == Len(s)
<1>1. /\ s \in Seq(Commit) /\ k \in Nat
      /\ display \in [Output -> Roles \cup {"none"}] /\ commits \in [Output -> Seq(Commit)]
  BY DEF Inv, TypeOK
<1>2. \A i \in 1 .. Len(s) : s[i].feedback \in Nat
  <2>1. \A i \in 1 .. Len(s) : s[i] \in Commit
    BY <1>1
  <2>2. QED
    BY <2>1 DEF Commit
<1>3. \A f : f \in D <=> f # 0 /\ \E i \in 1 .. k : s[i].feedback = f
  BY <1>1, FeedbackIsOfACommit
<1> HIDE DEF D
<1>4. /\ D \in SUBSET Nat /\ P \in SUBSET Nat
      /\ D \cup P = {f \in Nat : f # 0 /\ \E i \in 1 .. k : s[i].feedback = f}
  BY <1>2, <1>3
<1>5. /\ commits' \in [Output -> Seq(Commit)] /\ commits'[o] = << >>
      /\ \A p \in Output : p # o => commits'[p] = commits[p] /\ display'[p] = display[p]
      /\ display'[o] = "none" /\ display' \in [Output -> Roles \cup {"none"}]
  BY <1>1 DEF Unplug
<1>6. /\ Len(commits'[o]) + k = Len(s)
      /\ \A i \in 1 .. Len(commits'[o]) : i + k \in 1 .. Len(s) /\ commits'[o][i] = s[i + k]
  BY <1>1, <1>5
<1>7. plugged' \subseteq plugged /\ \A p \in Output : display'[p] # "none" => p \in plugged'
  <2>1. plugged' = plugged \ {o}
    BY DEF Unplug
  <2>2. QED
    BY <1>5, <2>1 DEF Inv, SurfaceInv
<1>8. /\ outcomes' = outcomes \cup Discarded(D)
                       \cup {[feedback |-> f, kind |-> "presented"] : f \in P}
      /\ UNCHANGED <<pc, surfVars, roleVars, nextFeedback>>
  BY DEF Unplug, D
<1>9. \A f \in P : k \in 1 .. Len(s) /\ f = s[k].feedback /\ display'[o] = s[k].role
  OBVIOUS
<1> HIDE DEF P
<1>10. Settles(o, k, D, P)
  BY <1>1, <1>4, <1>5, <1>6, <1>7, <1>8, <1>9 DEF Settles
<1>11. QED
  BY <1>1, <1>10, CompositorKeeps

-----------------------------------------------------------------------------
(* Theorems *)

\* run starts with a surface for every output, none of them configured.
LEMMA InitInv ==
    ASSUME Init
    PROVE  Inv
<1>1. PICK S \in (SUBSET Output) \ {{}} :
        listed = S /\ plugged = S /\ surfaces \in SetToSeqs(S) /\ named \in SUBSET S
  BY DEF Init
<1>2. Cardinality(S) \in Nat
  BY OutputAssumption, FS_Subset, FS_CardinalityType
<1>3. surfaces \in [1 .. Cardinality(S) -> S] /\ IsInjective(surfaces)
  BY <1>1 DEF SetToSeqs, IsInjective
<1>4. surfaces \in Seq(S)
  BY <1>2, <1>3
<1>5. surfaces \in Seq(Output) /\ ToSet(surfaces) \subseteq S
  BY <1>2, <1>3, <1>4, ToSetIsRange
<1>6. /\ handoff \in Handoffs /\ handoff.output = None /\ handoff.phase = "None"
      /\ handoff.feedback = 0 /\ handoff.overdue = FALSE
  BY DEF Init, NoHandoff, Handoffs
<1>7. commits \in [Output -> Seq(Commit)] /\ \A o \in Output : commits[o] = << >>
  BY DEF Init
<1>8. display \in [Output -> Roles \cup {"none"}] /\ \A o \in Output : display[o] = "none"
  BY DEF Init
<1>9. TypeOK
  BY <1>1, <1>3, <1>5, <1>6, <1>7, <1>8 DEF Init, TypeOK, Handoffs
<1>10. SurfaceInv /\ NumberInv
  BY <1>1, <1>5, <1>7, <1>8 DEF Init, SurfaceInv, NumberInv
<1>11. RoleInv(configured, authentication, role_pending, handoff)
  BY <1>6 DEF Init, RoleInv
<1>12. ShowInv(authentication, handoff, display, commits)
  BY <1>7, <1>8 DEF ShowInv, MayShow
<1>13. WallpaperInv(handoff, display, commits, outcomes) /\ OwedInv(handoff, commits, outcomes)
  BY <1>6 DEF WallpaperInv, OwedInv
<1>14. QED
  BY <1>9, <1>10, <1>11, <1>12, <1>13 DEF Inv

\* Every step of the runtime and of the compositor keeps the invariant.
LEMMA NextInv ==
    ASSUME Inv, [Next]_vars
    PROVE  Inv'
<1>1. CASE presented
  BY <1>1, PresentedKeeps
<1>2. CASE discarded
  BY <1>2, DiscardedKeeps
<1>3. ASSUME NEW o \in Output, ListOutput(o)
      PROVE  Inv'
  BY <1>3, ListOutputKeeps
<1>4. ASSUME NEW o \in Output, new_output(o)
      PROVE  Inv'
  BY <1>4, NewOutputKeeps
<1>5. ASSUME NEW o \in Output, update_output(o)
      PROVE  Inv'
  BY <1>5, UpdateOutputKeeps
<1>6. ASSUME NEW o \in Output, output_destroyed(o)
      PROVE  Inv'
  BY <1>6, OutputDestroyedKeeps
<1>7. ASSUME NEW o \in Output, configure(o)
      PROVE  Inv'
  BY <1>7, ConfigureKeeps
<1>8. CASE EndDispatch \/ EndTurn
  BY <1>8, LoopKeeps DEF EndDispatch, EndTurn
<1>9. CASE reconcile_outputs
  BY <1>9, ReconcileKeeps
<1>10. CASE expire_authentication_retirement
  BY <1>10, ExpireKeeps
<1>11. CASE Deadline
  BY <1>11, DeadlineKeeps
<1>12. ASSUME NEW o \in Output, Display(o)
       PROVE  Inv'
  BY <1>12, DisplayKeeps
<1>13. ASSUME NEW o \in Output, Unplug(o)
       PROVE  Inv'
  BY <1>13, UnplugKeeps
<1>14. ASSUME NEW o \in Output, render(o)
       PROVE  Inv'
  BY <1>14, RenderKeeps
<1>15. CASE UNCHANGED vars
  <2>1. pc' \in {"dispatch", "turn", "render"} /\ UNCHANGED <<surfVars, roleVars, compVars>>
    BY <1>15 DEF vars, Inv, TypeOK
  <2>2. QED
    BY <2>1, LoopKeeps
<1>16. QED
  BY <1>1, <1>2, <1>3, <1>4, <1>5, <1>6, <1>7, <1>8, <1>9, <1>10, <1>11, <1>12, <1>13,
     <1>14, <1>15
     DEF Next, Handlers, Turn, Compositor

\* The invariant holds in every behaviour of the runtime and the compositor.
THEOREM Invariance == Spec => []Inv
<1>1. Init => Inv
  BY InitInv
<1>2. Inv /\ [Next]_vars => Inv'
  BY NextInv
<1>3. QED
  BY <1>1, <1>2, PTL DEF Spec

\* Every variable of the runtime and of the compositor keeps its type, and no
\* output has two surfaces (add_surface).
THEOREM TypeCorrect == Spec => []TypeOK
<1>1. Inv => TypeOK
  BY DEF Inv
<1>2. QED
  BY <1>1, Invariance, PTL

\* The authentication interface is never on display on two outputs: the second
\* output gets the role only after the presentation of the wallpaper on the first
\* is reported (refresh_authentication_output, presented).
THEOREM OneOutput == Spec => []OneOutputShowsAuthentication
<1>1. Inv => OneOutputShowsAuthentication
  <2>1. ASSUME Inv, NEW o \in Output, NEW p \in Output,
               display[o] = "authentication", display[p] = "authentication"
        PROVE  o = p
    <3>1. /\ o \in authentication \/ o = handoff.output
          /\ p \in authentication \/ p = handoff.output
      BY <2>1 DEF Inv, ShowInv, MayShow
    <3>2. handoff.output # None => authentication = {}
      BY <2>1 DEF Inv, RoleInv
    <3>3. o # None /\ p # None
      BY OutputAssumption
    <3>4. \A x, y \in authentication : x = y
      BY <2>1 DEF Inv, RoleInv
    <3>5. QED
      BY <3>1, <3>2, <3>3, <3>4
  <2>2. QED
    BY <2>1 DEF OneOutputShowsAuthentication
<1>2. QED
  BY <1>1, Invariance, PTL

\* A handoff awaits a commit that is pending or the fate of a commit that the
\* compositor still owes; no surface has the role meanwhile, and the one that
\* retires exists (render, discarded, output_destroyed).
THEOREM UnderWay == Spec => []HandoffIsUnderWay
<1>1. Inv => HandoffIsUnderWay
  <2>1. SUFFICES ASSUME Inv, handoff # NoHandoff
                 PROVE  HandoffIsUnderWay
    BY DEF HandoffIsUnderWay
  <2>2. handoff \in Handoffs /\ handoff.output # None
    BY <2>1 DEF Inv, RoleInv, Handoffs, NoHandoff
  <2>3. /\ authentication = {} /\ handoff.output \in ToSet(surfaces) \cap configured
        /\ handoff.phase = "AwaitingCommit" => handoff.output \in role_pending
    BY <2>1, <2>2 DEF Inv, RoleInv, SurfaceInv
  <2>4. ASSUME handoff.phase = "AwaitingPresentation"
        PROVE  \/ handoff.feedback \in FeedbackOf(commits[handoff.output])
               \/ \E e \in outcomes : e.feedback = handoff.feedback
    <3>1. commits[handoff.output] \in Seq(Commit)
      BY <2>1, <2>2 DEF Inv, TypeOK, Handoffs
    <3>2. QED
      BY <2>1, <2>4, <3>1, FeedbackIsOfACommit DEF Inv, OwedInv
  <2>5. QED
    BY <2>3, <2>4 DEF HandoffIsUnderWay
<1>2. QED
  BY <1>1, Invariance, PTL
=============================================================================
