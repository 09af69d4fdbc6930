---------------------- MODULE ReadinessAuthorityProofs ----------------------
(* The readiness chain, for any requirements, signals, members and clock: what *)
(* is committed as READY was READY, a CURRENT answer was true, and an admission *)
(* or an authority is granted on present evidence only.                        *)
EXTENDS ReadinessAuthority, WellFoundedInduction, TLAPS

-----------------------------------------------------------------------------
(* Evaluation over time.                                                     *)

LEMMA LeastExists ==
    ASSUME NEW S \in SUBSET Nat, S # {} PROVE \E u \in S : \A v \in S : u <= v
<1>1. \E u \in S : \A v \in S : ~ (<<v, u>> \in OpToRel(<, Nat))
  BY NatLessThanWellFounded, WFMin
<1>2. PICK u \in S : \A v \in S : ~ (<<v, u>> \in OpToRel(<, Nat))
  BY <1>1
<1>3. ASSUME NEW v \in S PROVE u <= v
  <2>1. u \in Nat /\ v \in Nat
    OBVIOUS
  <2>2. v < u => <<v, u>> \in OpToRel(<, Nat)
    BY <2>1 DEF OpToRel
  <2>3. ~ (<<v, u>> \in OpToRel(<, Nat))
    BY <1>2
  <2>4. ~ (v < u)
    BY <2>2, <2>3
  <2> QED BY <2>1, <2>4
<1> QED BY <1>3

\* The horizon is an instant, and no evidence of a qualified critical
\* requirement ends before it.
LEMMA HorizonIsLeast ==
    ASSUME NEW U \in SUBSET Signals, NEW t
    PROVE  /\ Horizon(U, t) \in Horizons
           /\ \A s \in U : s.requirement \in Critical
                /\ Qualification(s.requirement, Of(U, s.requirement), t) = "QUALIFIED"
                => Horizon(U, t) <= s.until
<1> DEFINE E == {s.until : s \in {e \in U : /\ e.requirement \in Critical
                  /\ Qualification(e.requirement, Of(U, e.requirement), t) = "QUALIFIED"}}
           ends == E \cup {Never}
<1>1. ends \subseteq Horizons /\ Never \in ends
  BY InputAssumption DEF SignalType, Horizons, Never
<1>2. ends \in SUBSET Nat /\ ends # {}
  BY <1>1, InputAssumption DEF Horizons, Never
<1>3. Horizon(U, t) = CHOOSE u \in ends : \A v \in ends : u <= v
  BY DEF Horizon
<1> HIDE DEF ends
<1>4. \E u \in ends : \A v \in ends : u <= v
  BY <1>2, LeastExists
<1>5. Horizon(U, t) \in ends /\ \A v \in ends : Horizon(U, t) <= v
  BY <1>3, <1>4
<1> QED BY <1>1, <1>5 DEF ends

LEMMA ReadyMeans ==
    ASSUME NEW U, NEW t
    PROVE  Readiness(U, t) = "READY" <=>
              /\ \A r \in DOMAIN Requirements : Qualification(r, Of(U, r), t) # "INVALID"
              /\ \A r \in Critical : Qualification(r, Of(U, r), t) = "QUALIFIED"
<1>1. Critical \subseteq DOMAIN Requirements
  BY DEF Critical
<1> QED BY <1>1 DEF Readiness

\* Evidence that was not invalid does not become so.
LEMMA ValidStays ==
    ASSUME NEW r, NEW V \in SUBSET Signals, NEW e \in Times, NEW t \in Times, e <= t,
           Qualification(r, V, e) # "INVALID"
    PROVE  Qualification(r, V, t) # "INVALID"
<1>1. \A s \in V : s.captured \in Nat /\ s.until \in Nat
  BY InputAssumption DEF SignalType, Times, Horizons, Never
<1>2. e \in Nat /\ t \in Nat
  BY InputAssumption DEF Times
<1>3. \A s \in V : ~(s.until <= s.captured \/ s.captured > t) \/ V = {}
  BY <1>1, <1>2 DEF Qualification
<1> QED BY <1>3 DEF Qualification

\* Qualified evidence stays qualified until some of it ends.
LEMMA QualifiedStays ==
    ASSUME NEW r, NEW V \in SUBSET Signals, NEW e \in Times, NEW t \in Times, e <= t,
           Qualification(r, V, e) = "QUALIFIED", \A s \in V : t < s.until
    PROVE  Qualification(r, V, t) = "QUALIFIED"
<1>1. \A s \in V : s.captured \in Nat /\ s.until \in Nat
  BY InputAssumption DEF SignalType, Times, Horizons, Never
<1>2. e \in Nat /\ t \in Nat
  BY InputAssumption DEF Times
<1>3. /\ V # {} /\ ~\E s \in V : s.until <= s.captured \/ s.captured > e
      /\ ~\E s \in V : s.until <= e \/ ~s.onBase
      /\ ~\E s \in V : s.provenance \notin Requirements[r].accepts
      /\ ~\E s \in V : s.provenance = "UNKNOWN"
      /\ ~Requirements[r].review
      /\ ~(Requirements[r].single /\ \E s, u \in V : s.value # u.value)
  BY DEF Qualification
<1>4. ~\E s \in V : s.until <= s.captured \/ s.captured > t
  BY <1>1, <1>2, <1>3
<1>5. ~\E s \in V : s.until <= t \/ ~s.onBase
  BY <1>1, <1>2, <1>3
<1> QED BY <1>3, <1>4, <1>5 DEF Qualification

\* READY holds from its evaluation to its horizon.
LEMMA ReadyUntilHorizon ==
    ASSUME NEW U \in SUBSET Signals, NEW e \in Times, NEW t \in Times, e <= t,
           Readiness(U, e) = "READY", t < Horizon(U, e)
    PROVE  Readiness(U, t) = "READY"
<1>1. \A r : Of(U, r) \in SUBSET Signals
  BY DEF Of
<1>2. ASSUME NEW r \in DOMAIN Requirements PROVE Qualification(r, Of(U, r), t) # "INVALID"
  BY <1>1, ReadyMeans, ValidStays
<1>3. ASSUME NEW r \in Critical PROVE Qualification(r, Of(U, r), t) = "QUALIFIED"
  <2>1. Qualification(r, Of(U, r), e) = "QUALIFIED"
    BY ReadyMeans
  <2>2. ASSUME NEW s \in Of(U, r) PROVE t < s.until
    <3>1. s \in U /\ s.requirement = r
      BY DEF Of
    <3>2. Horizon(U, e) <= s.until /\ Horizon(U, e) \in Horizons
      BY <2>1, <3>1, HorizonIsLeast
    <3>3. s.until \in Nat /\ t \in Nat /\ Horizon(U, e) \in Nat
      BY <3>1, <3>2, InputAssumption DEF SignalType, Times, Horizons, Never
    <3> QED BY <3>2, <3>3
  <2> QED BY <1>1, <2>1, <2>2, QualifiedStays
<1> QED BY <1>2, <1>3, ReadyMeans

-----------------------------------------------------------------------------
(* The inductive invariant.                                                  *)

RequestType ==
    [step: Steps, kind: {"commit", "admit", "grant"}, next: DOMAIN Requirements,
     universe: SUBSET Signals, instant: Times, started: Times, state: ReadinessStates,
     until: Horizons, about: SUBSET Commits, was: BOOLEAN, result: Results]

CommitOK(c) ==
    /\ c.refs \subseteq signals /\ c.evaluated <= c.started /\ c.evaluated <= now
    /\ c.state = "READY" =>
          /\ Readiness(c.refs, c.evaluated) = "READY"
          /\ c.until = Horizon(c.refs, c.evaluated) /\ c.started < c.until

\* If the commit was not current when the request took its clock, it will see
\* why: the head has moved, the commit has ended, or a signal outside the commit
\* is read or still to be read.
WillTell(q, c) ==
    \/ q.was \/ ~head \/ c.until <= q.instant
    \/ \E s \in signals \ c.refs :
          s \in q.universe \/ (q.step = "universe" /\ q.next <= s.requirement)

RequestOK(q) ==
    /\ q.instant <= now /\ q.started <= now
    /\ q.about \subseteq commits /\ q.universe \subseteq signals
    /\ q.kind = "commit" /\ q.step \in {"material", "begin", "finish"} =>
          q.state = Readiness(q.universe, q.instant) /\ q.until = Horizon(q.universe, q.instant)
    /\ q.kind = "admit" /\ q.step \in {"universe", "dependency"} =>
          \A c \in q.about : WillTell(q, c)
    /\ q.result = "CURRENT" => q.was
    /\ q.kind = "grant" /\ q.step = "finish" => \A c \in q.about : c.evaluated <= q.started

ReadinessInv ==
    /\ TypeOK
    /\ \A c \in commits : CommitOK(c)
    /\ \A a \in admissions : a.commit \in commits /\ a.commit.state = "READY"
    /\ \A p \in Principals : RequestOK(request[p])

LEMMA TypeMeans ==
    TypeOK <=> /\ now \in Times /\ signals \subseteq Signals
               /\ head \in BOOLEAN /\ prepared \in BOOLEAN /\ members \subseteq Principals
               /\ commits \subseteq Commits /\ admissions \subseteq Admissions
               /\ authorities \subseteq Admissions
               /\ request \in [Principals -> RequestType]
BY DEF TypeOK, RequestType

LEMMA IdleOK == ReadinessInv => Idle \in RequestType /\ RequestOK(Idle)
<1> SUFFICES ASSUME ReadinessInv PROVE Idle \in RequestType /\ RequestOK(Idle)
  OBVIOUS
<1>1. 0 \in Times /\ 0 \in Horizons /\ 1 \in DOMAIN Requirements
  BY InputAssumption DEF Times, Horizons, Never
<1>2. now \in Nat
  BY InputAssumption DEF ReadinessInv, TypeOK, Times
<1>3. Idle \in RequestType
  BY <1>1 DEF Idle, RequestType, Steps, Results, ReadinessStates
<1>4. RequestOK(Idle)
  BY <1>2 DEF Idle, RequestOK
<1> QED BY <1>3, <1>4

\* The world only moves on: the clock, the signals, the head, the commits.
Moves ==
    /\ now \in Nat /\ now' \in Nat /\ now <= now' /\ signals \subseteq signals'
    /\ (head' => head) /\ commits \subseteq commits'

LEMMA RequestStays ==
    ASSUME Moves, NEW q \in RequestType, RequestOK(q) PROVE RequestOK(q)'
<1>1. q.instant \in Nat /\ q.started \in Nat
  BY InputAssumption DEF RequestType, Times
<1>2. \A c : WillTell(q, c) => WillTell(q, c)'
  BY DEF Moves, WillTell
<1> QED BY <1>1, <1>2 DEF Moves, RequestOK

LEMMA CommitStays ==
    ASSUME Moves, NEW c \in Commits, CommitOK(c) PROVE CommitOK(c)'
<1>1. c.evaluated \in Nat
  BY InputAssumption DEF Commits, Times
<1> QED BY <1>1 DEF Moves, CommitOK

\* One request moves on; nothing else does.
LEMMA Asked ==
    ASSUME ReadinessInv, UNCHANGED <<world, facts>>, NEW p \in Principals,
           NEW q \in RequestType, To(p, q), RequestOK(q)
    PROVE  ReadinessInv'
<1>1. TypeOK'
  BY TypeMeans DEF ReadinessInv, To, world, facts, TypeOK, RequestType
<1>2. Moves
  BY InputAssumption DEF Moves, ReadinessInv, TypeOK, Times, world, facts
<1>3. ASSUME NEW r \in Principals PROVE RequestOK(request[r])'
  <2>1. PICK u : u = request'[r]
    OBVIOUS
  <2>2. u \in RequestType /\ RequestOK(u)
    BY <2>1, TypeMeans DEF ReadinessInv, To
  <2>3. RequestOK(u)'
    BY <1>2, <2>2, RequestStays
  <2> QED BY <2>1, <2>3
<1>4. \A c \in commits' : CommitOK(c)'
  BY <1>2, CommitStays, TypeMeans DEF ReadinessInv, facts
<1> QED BY <1>1, <1>3, <1>4 DEF ReadinessInv, facts

\* The world moves on, or the database adds a row, and the requests that change
\* become idle.
LEMMA Settled ==
    ASSUME ReadinessInv, TypeOK', Moves,
           \A c \in commits' \ commits : CommitOK(c)',
           \A a \in admissions' \ admissions : a.commit \in commits' /\ a.commit.state = "READY",
           \A r \in Principals : request'[r] = request[r] \/ request'[r] = Idle
    PROVE  ReadinessInv'
<1>1. ASSUME NEW r \in Principals PROVE RequestOK(request[r])'
  <2>1. PICK u : u = request'[r]
    OBVIOUS
  <2>2. u \in RequestType /\ RequestOK(u)
    BY <2>1, TypeMeans, IdleOK DEF ReadinessInv
  <2>3. RequestOK(u)'
    BY <2>2, RequestStays
  <2> QED BY <2>1, <2>3
<1>2. \A c \in commits : CommitOK(c)'
  BY CommitStays, TypeMeans DEF ReadinessInv
<1>3. \A a \in admissions' : a.commit \in commits' /\ a.commit.state = "READY"
  BY DEF ReadinessInv, Moves
<1> QED BY <1>1, <1>2, <1>3 DEF ReadinessInv

-----------------------------------------------------------------------------
(* The steps.                                                                *)

LEMMA ReadSignalsStep ==
    ASSUME ReadinessInv, NEW p \in Principals, ReadSignals(p) PROVE ReadinessInv'
<1> PICK q : q = request[p]
  OBVIOUS
<1>1. q \in RequestType /\ RequestOK(q) /\ q.step = "universe" /\ q.next \in DOMAIN Requirements
  BY TypeMeans DEF ReadinessInv, ReadSignals, RequestType
<1>2. DOMAIN Requirements = 1..Len(Requirements) /\ Len(Requirements) \in Nat
  BY InputAssumption
<1>3. Of(signals, q.next) \subseteq signals /\ signals \subseteq Signals
  BY DEF ReadinessInv, TypeOK, Of
<1> PICK read : read = [q EXCEPT !.universe = @ \cup Of(signals, q.next)]
  OBVIOUS
<1> PICK n : n = IF q.next = Len(Requirements) THEN [read EXCEPT !.step = "dependency"]
                 ELSE [read EXCEPT !.next = q.next + 1]
  OBVIOUS
<1>4. n \in RequestType
  <2>1. q.universe \cup Of(signals, q.next) \in SUBSET Signals
    BY <1>1, <1>3 DEF RequestType
  <2>2. read \in RequestType
    BY <1>1, <2>1 DEF RequestType
  <2>3. q.next # Len(Requirements) => q.next + 1 \in DOMAIN Requirements
    BY <1>1, <1>2
  <2>4. "dependency" \in Steps
    BY DEF Steps
  <2> QED BY <2>2, <2>3, <2>4 DEF RequestType
<1>5. /\ n.kind = q.kind /\ n.about = q.about /\ n.was = q.was /\ n.instant = q.instant
      /\ n.started = q.started /\ n.result = q.result
      /\ n.universe = q.universe \cup Of(signals, q.next)
      /\ \/ n.step = "dependency" /\ q.next = Len(Requirements)
         \/ n.step = "universe" /\ n.next = q.next + 1
  BY <1>1 DEF RequestType
<1>6. ASSUME NEW c, WillTell(q, c) PROVE WillTell(n, c)
  <2>1. CASE \E s \in signals \ c.refs : s \in q.universe \/ q.next <= s.requirement
    <3> PICK s \in signals \ c.refs : s \in q.universe \/ q.next <= s.requirement
      BY <2>1
    <3>1. s.requirement \in 1..Len(Requirements)
      BY <1>2, <1>3, InputAssumption DEF SignalType
    <3>2. s \in n.universe \/ (n.step = "universe" /\ n.next <= s.requirement)
      BY <1>1, <1>2, <1>5, <3>1 DEF Of
    <3> QED BY <3>2 DEF WillTell
  <2>2. CASE q.was \/ ~head \/ c.until <= q.instant
    BY <1>5, <2>2 DEF WillTell
  <2> QED BY <1>6, <2>1, <2>2 DEF WillTell
<1>7. RequestOK(n)
  BY <1>1, <1>3, <1>5, <1>6 DEF RequestOK
<1>8. To(p, n) /\ UNCHANGED <<world, facts>>
  BY DEF ReadSignals
<1> QED BY <1>4, <1>7, <1>8, Asked

LEMMA RevalidateStep ==
    ASSUME ReadinessInv, NEW p \in Principals, NEW c \in commits, Revalidate(p, c)
    PROVE  ReadinessInv'
<1> PICK n : n = [Idle EXCEPT !.step = "universe", !.kind = "admit", !.about = {c},
                    !.instant = now,
                    !.was = Validity(c, signals, now) = "CURRENT" /\ head]
  OBVIOUS
<1>1. Idle \in RequestType /\ RequestOK(Idle) /\ CommitOK(c) /\ c \in Commits /\ now \in Times
  BY IdleOK, TypeMeans DEF ReadinessInv
<1>2. /\ n.step = "universe" /\ n.kind = "admit" /\ n.about = {c} /\ n.instant = now
      /\ n.was = (Validity(c, signals, now) = "CURRENT" /\ head) /\ n.next = 1
      /\ n.started = Idle.started /\ n.universe = Idle.universe /\ n.result = "NONE"
  BY DEF Idle
<1>3. n \in RequestType
  BY <1>1 DEF RequestType, Steps, Idle
<1>4. WillTell(n, c)
  <2>1. CASE c.refs # signals
    <3> PICK s \in signals : s \notin c.refs
      BY <1>1, <2>1 DEF CommitOK
    <3>1. 1 <= s.requirement
      BY InputAssumption DEF ReadinessInv, TypeOK, SignalType
    <3> QED BY <1>2, <3>1 DEF WillTell
  <2>2. CASE c.refs = signals
    BY <1>2, <2>2 DEF WillTell, Validity
  <2> QED BY <2>1, <2>2
<1>5. RequestOK(n)
  <2>1. now <= now
    BY <1>1, InputAssumption DEF Times
  <2> QED BY <1>1, <1>2, <1>4, <2>1 DEF RequestOK
<1>6. To(p, n) /\ UNCHANGED <<world, facts>>
  BY DEF Revalidate
<1> QED BY <1>3, <1>5, <1>6, Asked

\* A moved head ends the request; otherwise the answer is the validity of the
\* commit against what was read, which is not CURRENT if it was not at the start.
LEMMA AnswerStep ==
    ASSUME ReadinessInv, NEW p \in Principals, AnswerCurrentness(p) PROVE ReadinessInv'
<1> PICK q : q = request[p]
  OBVIOUS
<1>1. q \in RequestType /\ RequestOK(q) /\ q.step = "dependency" /\ q.kind = "admit"
  BY TypeMeans DEF ReadinessInv, AnswerCurrentness
<1> PICK c \in q.about :
      IF Delegable(c, Currentness(c, q))
      THEN To(p, [q EXCEPT !.step = "material", !.result = "CURRENT", !.universe = {}])
      ELSE Answer(p)
  BY DEF AnswerCurrentness
<1> PICK n : n = [q EXCEPT !.step = "material", !.result = "CURRENT", !.universe = {}]
  OBVIOUS
<1>2. UNCHANGED <<world, facts>>
  BY DEF AnswerCurrentness
<1>3. CASE Delegable(c, Currentness(c, q))
  <2>1. n \in RequestType
    BY <1>1 DEF RequestType, Steps, Results
  <2>2. head /\ c.refs = q.universe /\ ~(c.until <= q.instant)
    BY <1>3 DEF Delegable, Currentness, Validity
  <2>3. WillTell(q, c) => q.was
    BY <1>1, <2>2 DEF WillTell
  <2>4. q.was
    BY <1>1, <2>3 DEF RequestOK
  <2>5. /\ n.kind = "admit" /\ n.step = "material" /\ n.universe = {} /\ n.was = q.was
        /\ n.instant = q.instant /\ n.started = q.started /\ n.about = q.about
    BY <1>1 DEF RequestType
  <2>6. RequestOK(n)
    BY <1>1, <2>4, <2>5 DEF RequestOK
  <2> QED BY <1>2, <1>3, <2>1, <2>6, Asked
<1>4. CASE Answer(p)
  BY <1>2, <1>4, Asked, IdleOK DEF Answer
<1> QED BY <1>3, <1>4

LEMMA EvaluateStep ==
    ASSUME ReadinessInv, NEW p \in Principals, EvaluateCandidate(p) PROVE ReadinessInv'
<1> PICK q : q = request[p]
  OBVIOUS
<1>1. /\ q \in RequestType /\ RequestOK(q) /\ q.step = "candidate" /\ now \in Times
      /\ q.universe \in SUBSET Signals
  BY TypeMeans DEF ReadinessInv, EvaluateCandidate, RequestType
<1> PICK n : n = [q EXCEPT !.step = "material", !.instant = now,
                    !.state = Readiness(q.universe, now), !.until = Horizon(q.universe, now)]
  OBVIOUS
<1>2. Readiness(q.universe, now) \in ReadinessStates
  BY DEF Readiness, ReadinessStates
<1>3. Horizon(q.universe, now) \in Horizons
  BY <1>1, HorizonIsLeast
<1>4. n \in RequestType
  BY <1>1, <1>2, <1>3 DEF RequestType, Steps
<1>5. /\ n.step = "material" /\ n.instant = now /\ n.universe = q.universe
      /\ n.state = Readiness(n.universe, n.instant) /\ n.until = Horizon(n.universe, n.instant)
      /\ n.kind = q.kind /\ n.about = q.about /\ n.was = q.was /\ n.started = q.started
      /\ n.result = q.result
  BY <1>1 DEF RequestType
<1>6. RequestOK(n)
  <2>1. now <= now
    BY <1>1, InputAssumption DEF Times
  <2> QED BY <1>1, <1>5, <2>1 DEF RequestOK
<1>7. To(p, n) /\ UNCHANGED <<world, facts>>
  BY DEF EvaluateCandidate
<1> QED BY <1>4, <1>6, <1>7, Asked

LEMMA BeginStep ==
    ASSUME ReadinessInv, NEW p \in Principals, Begin(p) PROVE ReadinessInv'
<1> PICK q : q = request[p]
  OBVIOUS
<1>1. q \in RequestType /\ RequestOK(q) /\ q.step = "begin" /\ now \in Times
  BY TypeMeans DEF ReadinessInv, Begin
<1> PICK n : n = [q EXCEPT !.step = "finish", !.started = now]
  OBVIOUS
<1>2. n \in RequestType
  BY <1>1 DEF RequestType, Steps
<1>3. /\ n.step = "finish" /\ n.started = now /\ n.kind = q.kind /\ n.universe = q.universe
      /\ n.instant = q.instant /\ n.state = q.state /\ n.until = q.until
      /\ n.about = q.about /\ n.was = q.was /\ n.result = q.result
  BY <1>1 DEF RequestType
<1>4. \A c \in q.about : c.evaluated <= now
  BY <1>1 DEF RequestOK, ReadinessInv, CommitOK
<1>5. RequestOK(n)
  <2>1. now <= now
    BY <1>1, InputAssumption DEF Times
  <2> QED BY <1>1, <1>3, <1>4, <2>1 DEF RequestOK
<1>6. To(p, n) /\ UNCHANGED <<world, facts>>
  BY DEF Begin
<1> QED BY <1>2, <1>5, <1>6, Asked

\* The remaining steps of a request that read and check only.
LEMMA ReadingStep ==
    ASSUME ReadinessInv, NEW p \in Principals,
           \/ Fail(p) \/ ResolveAuthority(p) \/ ReadDependency(p) \/ ReadMaterial(p)
           \/ ReadSerializedMaterial(p) \/ \E a \in admissions : RequestGrant(p, a)
    PROVE  ReadinessInv'
<1>1. Idle \in RequestType /\ RequestOK(Idle)
  BY IdleOK
<1> PICK q : q = request[p]
  OBVIOUS
<1>2. q \in RequestType /\ RequestOK(q)
  BY TypeMeans DEF ReadinessInv
<1>3. ASSUME UNCHANGED <<world, facts>>, Answer(p) PROVE ReadinessInv'
  BY <1>1, <1>3, Asked DEF Answer
<1>4. CASE Fail(p)
  BY <1>3, <1>4 DEF Fail
<1>5. CASE ResolveAuthority(p)
  <2> PICK n : n = [Idle EXCEPT !.step = "universe"]
    OBVIOUS
  <2>1. n \in RequestType
    BY <1>1 DEF RequestType, Steps
  <2>2. RequestOK(n)
    BY <1>1 DEF RequestOK, Idle
  <2> QED BY <1>5, <2>1, <2>2, Asked DEF ResolveAuthority
<1>6. CASE ReadDependency(p)
  <2> PICK n : n = [q EXCEPT !.step = "candidate"]
    OBVIOUS
  <2>1. n \in RequestType /\ q.kind = "commit"
    BY <1>2, <1>6 DEF RequestType, Steps, ReadDependency
  <2>2. RequestOK(n)
    BY <1>2, <2>1 DEF RequestOK, RequestType
  <2> QED BY <1>3, <1>6, <2>1, <2>2, Asked DEF ReadDependency
<1>7. CASE ReadMaterial(p)
  <2> PICK n : n = [q EXCEPT !.step = "begin"]
    OBVIOUS
  <2>1. n \in RequestType /\ q.kind = "commit" /\ q.step = "material"
    BY <1>2, <1>7 DEF RequestType, Steps, ReadMaterial
  <2>2. RequestOK(n)
    BY <1>2, <2>1 DEF RequestOK, RequestType
  <2> QED BY <1>3, <1>7, <2>1, <2>2, Asked DEF ReadMaterial
<1>8. CASE ReadSerializedMaterial(p)
  <2> PICK n : n = [q EXCEPT !.step = "begin"]
    OBVIOUS
  <2>1. n \in RequestType /\ q.kind = "admit"
    BY <1>2, <1>8 DEF RequestType, Steps, ReadSerializedMaterial
  <2>2. RequestOK(n)
    BY <1>2, <2>1 DEF RequestOK, RequestType
  <2> QED BY <1>8, <2>1, <2>2, Asked DEF ReadSerializedMaterial
<1>9. CASE \E a \in admissions : RequestGrant(p, a)
  <2> PICK a \in admissions : RequestGrant(p, a)
    BY <1>9
  <2> PICK n : n = [Idle EXCEPT !.step = "begin", !.kind = "grant", !.about = {a.commit}]
    OBVIOUS
  <2>1. a.commit \in commits /\ a.commit \in Commits
    BY TypeMeans DEF ReadinessInv
  <2>2. n \in RequestType
    BY <1>1, <2>1 DEF RequestType, Steps
  <2>3. RequestOK(n)
    BY <1>1, <2>1 DEF RequestOK, Idle
  <2> QED BY <2>2, <2>3, Asked DEF RequestGrant
<1> QED BY <1>4, <1>5, <1>6, <1>7, <1>8, <1>9

LEMMA Forward ==
    ASSUME ReadinessInv, now' = now \/ now' = now + 1, signals \subseteq signals',
           head' => head, commits \subseteq commits'
    PROVE  Moves
BY InputAssumption DEF Moves, ReadinessInv, TypeOK, Times

LEMMA CommitStep ==
    ASSUME ReadinessInv, NEW p \in Principals, CommitReadiness(p) PROVE ReadinessInv'
<1> PICK q : q = request[p]
  OBVIOUS
<1>1. q \in RequestType /\ RequestOK(q) /\ q.step = "finish" /\ q.kind = "commit"
  BY TypeMeans DEF ReadinessInv, CommitReadiness
<1>2. /\ UNCHANGED <<now, signals, head, prepared, members, admissions, authorities>>
      /\ request' = [request EXCEPT ![p] = Idle]
  BY DEF CommitReadiness, world, Answer, To
<1>3. Idle \in RequestType
  BY IdleOK
<1>4. CASE UNCHANGED commits
  <2>1. TypeOK'
    BY <1>2, <1>3, <1>4, TypeMeans DEF ReadinessInv, TypeOK, RequestType
  <2> QED BY <1>2, <1>4, <2>1, Forward, Settled DEF ReadinessInv, TypeOK
<1>5. CASE /\ Serialized(p, q.universe) /\ q.instant <= q.started
           /\ q.state = "READY" => q.started < q.until
           /\ commits' = commits \cup {[by |-> p, refs |-> q.universe,
                evaluated |-> q.instant, state |-> q.state, until |-> q.until,
                started |-> q.started]}
  <2> PICK c : c = [by |-> p, refs |-> q.universe, evaluated |-> q.instant,
                    state |-> q.state, until |-> q.until, started |-> q.started]
    OBVIOUS
  <2>1. c \in Commits
    BY <1>1 DEF Commits, RequestType
  <2>2. commits' = commits \cup {c}
    BY <1>5
  <2>3. TypeOK'
    BY <1>2, <1>3, <2>1, <2>2, TypeMeans DEF ReadinessInv, TypeOK, RequestType
  <2>4. CommitOK(c)
    BY <1>1, <1>5 DEF CommitOK, RequestOK
  <2>5. Moves
    BY <1>2, <2>2, Forward
  <2>6. CommitOK(c)'
    BY <2>1, <2>4, <2>5, CommitStays
  <2>7. \A d \in commits' \ commits : CommitOK(d)'
    BY <2>2, <2>6
  <2> QED BY <1>2, <2>3, <2>5, <2>7, Settled DEF ReadinessInv, TypeOK
<1> QED BY <1>4, <1>5 DEF CommitReadiness, Started

LEMMA AdmitStep ==
    ASSUME ReadinessInv, NEW p \in Principals, AdmitDelegability(p) PROVE ReadinessInv'
<1> PICK q : q = request[p]
  OBVIOUS
<1>1. q \in RequestType /\ RequestOK(q)
  BY TypeMeans DEF ReadinessInv
<1>2. /\ UNCHANGED <<now, signals, head, prepared, members, commits, authorities>>
      /\ request' = [request EXCEPT ![p] = Idle]
  BY DEF AdmitDelegability, world, Answer, To
<1> PICK c \in q.about :
      \/ /\ c.state = "READY"
         /\ admissions' = IF \E a \in admissions : a.commit = c THEN admissions
              ELSE admissions \cup {[by |-> p, commit |-> c, revalidated |-> q.instant,
                                     started |-> q.started]}
      \/ UNCHANGED admissions
  BY DEF AdmitDelegability, Started
<1> PICK a : a = [by |-> p, commit |-> c, revalidated |-> q.instant, started |-> q.started]
  OBVIOUS
<1>3. c \in commits /\ c \in Commits
  BY <1>1, TypeMeans DEF ReadinessInv, RequestOK
<1>4. a \in Admissions
  BY <1>1, <1>3 DEF Admissions, RequestType
<1>5. admissions' = admissions \/ (admissions' = admissions \cup {a} /\ a.commit.state = "READY")
  OBVIOUS
<1>6. TypeOK'
  BY <1>2, <1>4, <1>5, IdleOK, TypeMeans DEF ReadinessInv, TypeOK, RequestType
<1>7. Moves
  BY <1>2, Forward
<1> QED BY <1>2, <1>3, <1>5, <1>6, <1>7, Settled DEF ReadinessInv, TypeOK

LEMMA GrantStep ==
    ASSUME ReadinessInv, NEW p \in Principals, GrantExecutionAuthority(p) PROVE ReadinessInv'
<1>1. /\ UNCHANGED <<now, signals, head, prepared, members, commits, admissions>>
      /\ request' = [request EXCEPT ![p] = Idle]
  BY DEF GrantExecutionAuthority, world, Answer, To
<1>2. authorities' \subseteq Admissions
  BY DEF GrantExecutionAuthority, ReadinessInv, TypeOK
<1>3. TypeOK'
  BY <1>1, <1>2, IdleOK, TypeMeans DEF ReadinessInv, TypeOK, RequestType
<1>4. Moves
  BY <1>1, Forward
<1> QED BY <1>1, <1>3, <1>4, Settled DEF ReadinessInv, TypeOK

LEMMA OthersStep ==
    ASSUME ReadinessInv,
           \/ Tick \/ MoveHead \/ LeavePrepared \/ \E s \in Signals : InsertSignal(s)
           \/ \E p \in Principals : Revoke(p)
    PROVE  ReadinessInv'
<1>1. UNCHANGED <<commits, admissions, authorities, request>>
  BY DEF Tick, MoveHead, LeavePrepared, InsertSignal, Revoke, facts
<1>2. TypeOK'
  <2>1. now' \in Times
    BY InputAssumption
       DEF ReadinessInv, TypeOK, Tick, MoveHead, LeavePrepared, InsertSignal, Revoke, Times
  <2>2. /\ signals' \subseteq Signals /\ head' \in BOOLEAN /\ prepared' \in BOOLEAN
        /\ members' \subseteq Principals
    BY DEF ReadinessInv, TypeOK, Tick, MoveHead, LeavePrepared, InsertSignal, Revoke
  <2> QED BY <1>1, <2>1, <2>2, TypeMeans DEF ReadinessInv, TypeOK, RequestType
<1>3. Moves
  <2>1. /\ now' = now \/ now' = now + 1
        /\ signals \subseteq signals' /\ (head' => head) /\ commits \subseteq commits'
    BY <1>1 DEF Tick, MoveHead, LeavePrepared, InsertSignal, Revoke
  <2> QED BY <2>1, Forward
<1> QED BY <1>1, <1>2, <1>3, Settled DEF ReadinessInv, TypeOK

LEMMA ReadinessStep == ReadinessInv /\ [Next]_vars => ReadinessInv'
<1> SUFFICES ASSUME ReadinessInv, [Next]_vars PROVE ReadinessInv'
  OBVIOUS
<1>1. CASE UNCHANGED vars
  <2>1. UNCHANGED <<now, signals, head, prepared, members, commits, admissions, authorities, request>>
    BY <1>1 DEF vars
  <2>2. TypeOK' /\ Moves
    BY <2>1, TypeMeans, Forward DEF ReadinessInv, RequestType, TypeOK
  <2> QED BY <2>1, <2>2, Settled DEF ReadinessInv
<1>2. CASE \/ Tick \/ MoveHead \/ LeavePrepared \/ \E s \in Signals : InsertSignal(s)
           \/ \E p \in Principals : Revoke(p)
  BY <1>2, OthersStep
<1>3. ASSUME NEW p \in Principals,
             \/ Fail(p) \/ ResolveAuthority(p) \/ (\E c \in commits : Revalidate(p, c))
             \/ ReadSignals(p) \/ ReadDependency(p) \/ AnswerCurrentness(p)
             \/ EvaluateCandidate(p) \/ ReadMaterial(p) \/ ReadSerializedMaterial(p)
             \/ Begin(p) \/ CommitReadiness(p) \/ AdmitDelegability(p)
             \/ (\E a \in admissions : RequestGrant(p, a)) \/ GrantExecutionAuthority(p)
      PROVE  ReadinessInv'
  BY <1>3, ReadingStep, RevalidateStep, ReadSignalsStep, AnswerStep, EvaluateStep, BeginStep,
     CommitStep, AdmitStep, GrantStep
<1> QED BY <1>1, <1>2, <1>3 DEF Next

LEMMA ReadinessInit == Init => ReadinessInv
<1> SUFFICES ASSUME Init PROVE ReadinessInv
  OBVIOUS
<1>1. 0 \in Times /\ 0 \in Horizons /\ 1 \in DOMAIN Requirements
  BY InputAssumption DEF Times, Horizons, Never
<1>2. Idle \in RequestType /\ RequestOK(Idle)
  BY <1>1 DEF Init, Idle, RequestType, RequestOK, Steps, Results, ReadinessStates
<1>3. TypeOK
  BY <1>1, <1>2, TypeMeans DEF Init
<1> QED BY <1>2, <1>3 DEF Init, ReadinessInv

LEMMA Invariance == Spec => []ReadinessInv
BY ReadinessInit, ReadinessStep, PTL DEF Spec

-----------------------------------------------------------------------------
(* The theorems.                                                             *)

\* Every variable keeps its type, whatever the requests read and in which order.
THEOREM TypeInvariant == Spec => []TypeOK
<1>1. ReadinessInv => TypeOK
  BY DEF ReadinessInv
<1> QED BY <1>1, Invariance, PTL

\* A committed READY was evaluated before the database decided, over recorded
\* signals, and stays READY at every instant up to that decision
\* (build002_commit_readiness_authority, evaluateReadinessValidity).
THEOREM CommittedReady == Spec => []CommittedReadinessHolds
<1>1. ReadinessInv => CommittedReadinessHolds
  <2> SUFFICES ASSUME ReadinessInv, NEW c \in commits
               PROVE  /\ c.refs \subseteq signals /\ c.evaluated <= c.started
                      /\ c.state = "READY" =>
                           \A t \in c.evaluated..c.started : Readiness(c.refs, t) = "READY"
    BY DEF CommittedReadinessHolds
  <2>1. c \in Commits /\ CommitOK(c)
    BY TypeMeans DEF ReadinessInv
  <2>2. ASSUME c.state = "READY", NEW t \in c.evaluated..c.started
        PROVE  Readiness(c.refs, t) = "READY"
    <3>1. c.refs \in SUBSET Signals /\ c.evaluated \in Times /\ c.started \in Times
      BY <2>1 DEF Commits
    <3>2. c.evaluated \in Nat /\ c.started \in Nat /\ MaxTime \in Nat
      BY <3>1, InputAssumption DEF Times
    <3>3. t \in Times /\ c.evaluated <= t
      BY <2>2, <3>1, <3>2 DEF Times
    <3>4. Horizon(c.refs, c.evaluated) \in Nat
      BY <3>1, <3>2, HorizonIsLeast DEF Horizons, Never
    <3>5. t < Horizon(c.refs, c.evaluated)
      BY <2>1, <2>2, <3>2, <3>4 DEF CommitOK
    <3> QED BY <2>1, <2>2, <3>1, <3>3, <3>5, ReadyUntilHorizon DEF CommitOK
  <2> QED BY <2>1, <2>2 DEF CommitOK
<1> QED BY <1>1, Invariance, PTL

\* What the revalidation answers was true when it took its clock, although it
\* read the signals and the head later (OutcomeReadinessRevalidator).
THEOREM CurrentTrue == Spec => []CurrentWasTrue
<1>1. ReadinessInv => CurrentWasTrue
  BY DEF ReadinessInv, RequestOK, CurrentWasTrue
<1> QED BY <1>1, Invariance, PTL

\* An admission or an authority is granted only to a member, for a transaction
\* that is PREPARED on an unmoved head, while the signals recorded now are READY
\* (build002_admit_delegability, build002_grant_execution_authority).
THEOREM FreshConsequences == Spec => ConsequencesAreFresh
<1>1. ASSUME ReadinessInv, NEW p \in Principals, NEW c \in commits, c.state = "READY",
             request[p].step = "finish",
             Serialized(p, c.refs), Started(p) < c.until, c.evaluated <= Started(p)
      PROVE  /\ p \in members /\ prepared /\ head /\ request[p].step = "finish"
             /\ Readiness(signals, Started(p)) = "READY"
  <2>1. c \in Commits /\ CommitOK(c) /\ request[p] \in RequestType
    BY <1>1, TypeMeans DEF ReadinessInv
  <2>2. c.refs \in SUBSET Signals /\ c.evaluated \in Times /\ Started(p) \in Times
    BY <2>1 DEF Commits, RequestType, Started
  <2>3. Readiness(c.refs, Started(p)) = "READY"
    BY <1>1, <2>1, <2>2, ReadyUntilHorizon DEF CommitOK
  <2> QED BY <1>1, <2>3 DEF Serialized
<1>2. ReadinessInv /\ [Next]_vars =>
        ((admissions' # admissions \/ authorities' # authorities) =>
           \E p \in members : /\ prepared /\ head /\ request[p].step = "finish"
                              /\ Readiness(signals, Started(p)) = "READY")
  <2> SUFFICES ASSUME ReadinessInv, [Next]_vars,
                      admissions' # admissions \/ authorities' # authorities
               PROVE  \E p \in members : /\ prepared /\ head /\ request[p].step = "finish"
                                         /\ Readiness(signals, Started(p)) = "READY"
    OBVIOUS
  <2>1. \E p \in Principals : AdmitDelegability(p) \/ GrantExecutionAuthority(p)
    <3>1. ~ UNCHANGED vars
      BY DEF vars
    <3>2. ~ (Tick \/ MoveHead \/ LeavePrepared \/ \E s \in Signals : InsertSignal(s))
      BY DEF Tick, MoveHead, LeavePrepared, InsertSignal, facts
    <3>3. ASSUME NEW p \in Principals
          PROVE  ~ (\/ Revoke(p) \/ Fail(p) \/ ResolveAuthority(p)
                    \/ (\E c \in commits : Revalidate(p, c)) \/ ReadSignals(p)
                    \/ ReadDependency(p) \/ AnswerCurrentness(p) \/ EvaluateCandidate(p)
                    \/ ReadMaterial(p) \/ ReadSerializedMaterial(p) \/ Begin(p)
                    \/ CommitReadiness(p) \/ (\E a \in admissions : RequestGrant(p, a)))
      BY DEF Revoke, Fail, ResolveAuthority, Revalidate, ReadSignals, ReadDependency,
             AnswerCurrentness, EvaluateCandidate, ReadMaterial, ReadSerializedMaterial,
             Begin, CommitReadiness, RequestGrant, facts
    <3> QED BY <3>1, <3>2, <3>3 DEF Next
  <2> PICK p \in Principals : AdmitDelegability(p) \/ GrantExecutionAuthority(p)
    BY <2>1
  <2>2. request[p] \in RequestType /\ RequestOK(request[p])
    BY TypeMeans DEF ReadinessInv
  <2>3. CASE AdmitDelegability(p)
    <3>1. PICK c \in request[p].about :
            /\ Serialized(p, c.refs) /\ c.state = "READY" /\ Started(p) < c.until
            /\ c.evaluated <= request[p].instant /\ request[p].instant <= Started(p)
      BY <2>3 DEF AdmitDelegability
    <3>2. c \in commits /\ c \in Commits
      BY <2>2, TypeMeans DEF RequestOK, ReadinessInv
    <3>3. c.evaluated \in Nat /\ request[p].instant \in Nat /\ Started(p) \in Nat
      BY <2>2, <3>2, InputAssumption DEF Commits, RequestType, Times, Started
    <3>4. c.evaluated <= Started(p)
      BY <3>1, <3>3
    <3> QED BY <1>1, <2>3, <3>1, <3>2, <3>4 DEF AdmitDelegability, Serialized
  <2>4. CASE GrantExecutionAuthority(p)
    <3>1. PICK a \in admissions :
            /\ a.commit \in request[p].about
            /\ Serialized(p, a.commit.refs) /\ Started(p) < a.commit.until
      BY <2>4 DEF GrantExecutionAuthority
    <3>2. a.commit \in commits /\ a.commit.state = "READY"
      BY DEF ReadinessInv
    <3>3. a.commit.evaluated <= Started(p)
      BY <2>2, <2>4, <3>1 DEF RequestOK, GrantExecutionAuthority, Started
    <3> QED BY <1>1, <2>4, <3>1, <3>2, <3>3 DEF GrantExecutionAuthority, Serialized
  <2> QED BY <2>3, <2>4
<1> QED BY <1>2, Invariance, PTL DEF Spec, ConsequencesAreFresh
=============================================================================
