------------------------ MODULE AIReservationTheorems ------------------------
(***************************************************************************)
(* What the paid calls promise for every number of companies, users, calls *)
(* and months, every budget and every cost a provider may report.          *)
(*                                                                         *)
(* The heart is the policy version: a version that an owner replaced or an *)
(* overage stopped is past, and a past version never holds again. A call   *)
(* under way when that happened carries a past version from then on.       *)
(***************************************************************************)
EXTENDS AIReservation, AmountTheorems

\* Version v of a policy was replaced, or is the current one and disabled.
Past(s, o, v) ==
  \/ v < policy[s][o].version
  \/ v = policy[s][o].version /\ ~policy[s][o].enabled

\* A call that reserved carries a version its policy has had.
RequestsOK ==
  \A c \in Calls : thread[c] # "none" =>
    /\ request[c].service \in Services /\ request[c].org \in Orgs
    /\ request[c].actor \in Users
    /\ request[c].version <= policy[request[c].service][request[c].org].version

DisturbedOK ==
  \A c \in disturbed :
    thread[c] # "none" /\ Past(request[c].service, request[c].org, request[c].version)

StoppedOK == \A s \in Services, o \in Orgs, v \in Nat : <<s, o, v>> \in stopped => Past(s, o, v)

\* Only what comes after sending is completed.
CompletedOK ==
  \A c \in Calls : status[c] = "completed" =>
    thread[c] \notin {"none", "reserved", "checked", "sent"}

AIInv == AITypeOK /\ RequestsOK /\ DisturbedOK /\ StoppedOK /\ CompletedOK

\* Policies move to a new version, or keep theirs and are not enabled.
PolicyStep ==
  \A s \in Services, o \in Orgs :
    \/ policy'[s][o].version > policy[s][o].version
    \/ policy'[s][o].version = policy[s][o].version /\ (policy'[s][o].enabled => policy[s][o].enabled)

\* Under a policy step what is past stays past.
LEMMA PastIsForEver ==
  ASSUME AITypeOK, AITypeOK', PolicyStep,
         NEW s \in Services, NEW o \in Orgs, NEW v \in Nat, Past(s, o, v)
  PROVE  Past(s, o, v)'
<1>1. policy[s][o].version \in Nat /\ policy'[s][o].version \in Nat
  BY DEF AITypeOK, PolicyRow
<1>2. QED
  BY <1>1 DEF Past, PolicyStep

\* The initial state.
LEMMA InitInvariant == AIInit => AIInv
<1> SUFFICES ASSUME AIInit PROVE AIInv
  OBVIOUS
<1> USE AIAssumption
<1>1. AITypeOK
  BY DEF AIInit, AITypeOK, Unused, Months, PolicyRow, RequestRow
<1>2. QED
  BY <1>1 DEF AIInit, AIInv, RequestsOK, DisturbedOK, StoppedOK, CompletedOK

-----------------------------------------------------------------------------
(* Type correctness, action by action. *)

\* A change of access keeps the types.
LEMMA AccessTypes ==
  ASSUME AIInv, NEW o \in Orgs, NEW owner \in Users, NEW user \in Users,
         NEW new \in RolesOffered, UpdateMemberAccess(o, owner, user, new)
  PROVE  AITypeOK'
BY AIAssumption DEF AIInv, AITypeOK, UpdateMemberAccess, money

\* An owner's configuration keeps the types and gives the policy a new version.
LEMMA ConfigureTypes ==
  ASSUME AIInv, NEW s \in Services, NEW o \in Orgs, NEW owner \in Users,
         NEW enabled \in BOOLEAN, NEW terms \in Terms, Configure(s, o, owner, enabled, terms)
  PROVE  AITypeOK' /\ PolicyStep
<1>1. terms.budget \in Nat /\ terms.cap \in Nat
  BY AIAssumption
<1>2. disturbed' \subseteq Calls
  BY DEF AIInv, AITypeOK, Configure, CallsOf, Active
<1>3. policy' \in [Services -> [Orgs -> PolicyRow]]
  BY <1>1 DEF AIInv, AITypeOK, Configure, PolicyRow
<1>4. AITypeOK'
  BY <1>2, <1>3 DEF AIInv, AITypeOK, Configure, money
<1>5. PolicyStep
  BY DEF AIInv, AITypeOK, Configure, PolicyRow, PolicyStep
<1>6. QED
  BY <1>4, <1>5

\* A reservation keeps the types.
LEMMA ReserveTypes ==
  ASSUME AIInv, NEW c \in Calls, NEW s \in Services, NEW o \in Orgs, NEW u \in Users,
         NEW created \in Stamps, Reserve(c, s, o, u, created)
  PROVE  AITypeOK'
<1>1. created \in Months
  BY DEF AIInv, AITypeOK, Stamps
<1>2. \A k \in DOMAIN counter' : counter'[k] \in Nat
  BY AIAssumption DEF AIInv, AITypeOK, Reserve, Spent
<1>3. request' \in [Calls -> RequestRow]
  BY <1>1 DEF AIInv, AITypeOK, Reserve, PolicyRow, RequestRow
<1>4. QED
  BY <1>1, <1>2, <1>3 DEF AIInv, AITypeOK, Reserve, rules

\* An overage keeps the types; it disables the policy and leaves its version.
LEMMA OverageTypes ==
  ASSUME AIInv, NEW c \in Calls, NEW reported \in Costs \cup {NoCost},
         RecordOverage(c, reported)
  PROVE  AITypeOK' /\ PolicyStep
<1> DEFINE s == request[c].service
           o == request[c].org
<1>1. s \in Services /\ o \in Orgs
  BY DEF AIInv, RequestsOK, RecordOverage, Moves
<1>2. reported \in Nat /\ reported - Ceiling \in Nat
  <2>1. reported # NoCost /\ reported > Ceiling
    BY DEF RecordOverage
  <2>2. reported \in Nat /\ Ceiling \in Nat
    BY <2>1, AIAssumption
  <2> QED
    BY <2>1, <2>2
<1>3. \A k \in DOMAIN counter' : counter'[k] \in Nat
  BY <1>2 DEF AIInv, AITypeOK, RecordOverage, Corrected, Adjusted
<1>4. policy' \in [Services -> [Orgs -> PolicyRow]]
  <2> DEFINE row == [policy[s][o] EXCEPT !.enabled = FALSE]
  <2> DEFINE old == policy[s][o]
  <2>0. old \in PolicyRow
    BY <1>1 DEF AIInv, AITypeOK
  <2> HIDE DEF old
  <2>1. [old EXCEPT !.enabled = FALSE] \in PolicyRow
    BY <2>0 DEF PolicyRow
  <2> USE DEF old
  <2>2. policy' = [policy EXCEPT ![s][o] = row]
    BY <1>1 DEF AIInv, AITypeOK, RecordOverage, Disabled
  <2>3. row \in PolicyRow
    BY <2>1
  <2> HIDE DEF row
  <2>4. QED
    BY <1>1, <2>2, <2>3 DEF AIInv, AITypeOK
<1>5. disturbed' \subseteq Calls
  BY DEF AIInv, AITypeOK, RecordOverage, CallsOf, Active
<1>6. stopped' \subseteq Services \X Orgs \X Nat
  BY <1>1 DEF AIInv, AITypeOK, RecordOverage, PolicyRow
<1>7. AITypeOK'
  BY <1>2, <1>3, <1>4, <1>5, <1>6 DEF AIInv, AITypeOK, RecordOverage, Moves
<1>8. PolicyStep
  BY <1>1 DEF AIInv, AITypeOK, RecordOverage, Disabled, PolicyRow, PolicyStep
<1>9. QED
  BY <1>7, <1>8

\* The worker's own steps and the death of the worker: only the row of the call moves.
WorkerStep(c) ==
  /\ thread[c] # "none" /\ thread'[c] # "none"
  /\ \A d \in Calls \ {c} : thread'[d] = thread[d] /\ status'[d] = status[d]
  /\ status'[c] = "completed" =>
       thread'[c] \notin {"none", "reserved", "checked", "sent"}
  /\ UNCHANGED <<month, role, policy, counter, request, disturbed, stopped>>

\* A step of the worker touches its own call only and completes nothing before sending.
LEMMA AdvanceTypes ==
  ASSUME AIInv, NEW c \in Calls, Advance(c) \/ Crash(c)
  PROVE  AITypeOK' /\ WorkerStep(c)
<1> USE DEF AIInv, AITypeOK, CompletedOK, WorkerStep, Moves, money, rules
<1>1. CASE CheckPolicy(c)
  BY <1>1 DEF CheckPolicy
<1>2. CASE Dispatch(c)
  BY <1>2 DEF Dispatch
<1>3. CASE Timeout(c)
  BY <1>3 DEF Timeout
<1>4. CASE FinalCheck(c)
  BY <1>4 DEF FinalCheck
<1>5. CASE Refuse(c)
  BY <1>5 DEF Refuse
<1>6. CASE Deny(c)
  BY <1>6 DEF Deny
<1>7. CASE HandleFailure(c)
  BY <1>7 DEF HandleFailure
<1>8. CASE Deliver(c)
  BY <1>8 DEF Deliver
<1>9. CASE Crash(c)
  BY <1>9 DEF Crash, Active
<1>10. QED
  BY <1>1, <1>2, <1>3, <1>4, <1>5, <1>6, <1>7, <1>8, <1>9 DEF Advance

\* So does an answer within the ceiling or without a valid choice.
LEMMA AnswerTypes ==
  ASSUME AIInv, NEW c \in Calls, NEW reported \in Costs \cup {NoCost},
         RejectAnswer(c) \/ Complete(c, reported)
  PROVE  AITypeOK' /\ WorkerStep(c)
<1> USE AIAssumption DEF AIInv, AITypeOK, CompletedOK, WorkerStep, Moves, rules
<1>1. CASE RejectAnswer(c)
  BY <1>1 DEF RejectAnswer
<1>2. CASE Complete(c, reported)
  BY <1>2 DEF Complete
<1>3. QED
  BY <1>1, <1>2

-----------------------------------------------------------------------------
(* The invariant. *)

\* What touches one call only, and no policy, keeps the invariant.
LEMMA WorkerInvariant ==
  ASSUME AIInv, AITypeOK', NEW c \in Calls, WorkerStep(c)
  PROVE  AIInv'
<1> USE DEF AIInv, AITypeOK, WorkerStep
<1>1. RequestsOK'
  BY DEF RequestsOK
<1>2. DisturbedOK' /\ StoppedOK'
  BY DEF DisturbedOK, StoppedOK, Past
<1>3. CompletedOK'
  BY DEF CompletedOK
<1>4. QED
  BY <1>1, <1>2, <1>3

\* A policy step that marks the calls it disturbs and the version it stops.
LEMMA PolicyInvariant ==
  ASSUME AIInv, AITypeOK', PolicyStep, request' = request,
         \A c \in Calls : thread'[c] = "none" <=> thread[c] = "none",
         \A c \in disturbed' \ disturbed : thread[c] # "none"
           /\ Past(request[c].service, request[c].org, request[c].version)',
         \A s \in Services, o \in Orgs, v \in Nat :
           <<s, o, v>> \in stopped' \ stopped => Past(s, o, v)'
  PROVE  RequestsOK' /\ DisturbedOK' /\ StoppedOK'
<1>1. RequestsOK'
  <2> SUFFICES ASSUME NEW c \in Calls, thread[c] # "none"
               PROVE  /\ request[c].service \in Services /\ request[c].org \in Orgs
                      /\ request[c].actor \in Users
                      /\ request[c].version
                           <= policy'[request[c].service][request[c].org].version
    BY DEF RequestsOK
  <2>1. /\ request[c].service \in Services /\ request[c].org \in Orgs
        /\ request[c].actor \in Users /\ request[c].version \in Nat
        /\ request[c].version <= policy[request[c].service][request[c].org].version
    BY DEF AIInv, AITypeOK, RequestsOK, RequestRow
  <2>2. /\ policy[request[c].service][request[c].org].version \in Nat
        /\ policy'[request[c].service][request[c].org].version \in Nat
    BY <2>1 DEF AIInv, AITypeOK, PolicyRow
  <2>3. QED
    BY <2>1, <2>2 DEF PolicyStep
<1>2. DisturbedOK'
  <2> SUFFICES ASSUME NEW c \in disturbed
               PROVE  /\ thread'[c] # "none"
                      /\ Past(request[c].service, request[c].org, request[c].version)'
    BY DEF DisturbedOK, AIInv, AITypeOK
  <2> DEFINE s == request[c].service
             o == request[c].org
             v == request[c].version
  <2>1. c \in Calls /\ thread[c] # "none" /\ Past(s, o, v)
    BY DEF AIInv, AITypeOK, DisturbedOK
  <2>2. s \in Services /\ o \in Orgs /\ v \in Nat
    BY <2>1 DEF AIInv, AITypeOK, RequestsOK, RequestRow
  <2>3. Past(s, o, v)'
    BY <2>1, <2>2, PastIsForEver DEF AIInv
  <2>4. QED
    BY <2>1, <2>3
<1>3. StoppedOK'
  BY PastIsForEver DEF AIInv, StoppedOK
<1>4. QED
  BY <1>1, <1>2, <1>3

\* A configuration makes the versions of all calls under way past versions.
LEMMA ConfigureInvariant ==
  ASSUME AIInv, NEW s \in Services, NEW o \in Orgs, NEW owner \in Users,
         NEW enabled \in BOOLEAN, NEW terms \in Terms, Configure(s, o, owner, enabled, terms)
  PROVE  AIInv'
<1>1. AITypeOK' /\ PolicyStep
  BY ConfigureTypes
<1>2. request' = request /\ thread' = thread /\ status' = status /\ stopped' = stopped
  BY DEF Configure, money
<1>3. ASSUME NEW c \in disturbed' \ disturbed
      PROVE  thread[c] # "none" /\ Past(request[c].service, request[c].org, request[c].version)'
  <2>1. c \in Calls /\ thread[c] # "none" /\ request[c].service = s /\ request[c].org = o
    BY DEF Configure, CallsOf, Active
  <2>2. request[c].version \in Nat /\ policy[s][o].version \in Nat
    BY <2>1 DEF AIInv, AITypeOK, RequestRow, PolicyRow
  <2>3. request[c].version <= policy[s][o].version
    BY <2>1 DEF AIInv, RequestsOK
  <2>4. policy'[s][o].version = policy[s][o].version + 1
    BY DEF AIInv, AITypeOK, Configure
  <2>5. QED
    BY <1>2, <2>1, <2>2, <2>3, <2>4 DEF Past
<1>4. RequestsOK' /\ DisturbedOK' /\ StoppedOK'
  BY <1>1, <1>2, <1>3, PolicyInvariant
<1>5. QED
  BY <1>1, <1>2, <1>4 DEF AIInv, CompletedOK

\* An overage makes the current version a past one.
LEMMA OverageInvariant ==
  ASSUME AIInv, NEW c \in Calls, NEW reported \in Costs \cup {NoCost},
         RecordOverage(c, reported)
  PROVE  AIInv'
<1> DEFINE s == request[c].service
           o == request[c].org
<1>1. AITypeOK' /\ PolicyStep
  BY OverageTypes
<1>2. s \in Services /\ o \in Orgs /\ thread[c] = "sent"
  BY DEF AIInv, RequestsOK, RecordOverage, Moves
<1>3. /\ request' = request
      /\ \A d \in Calls : thread'[d] = "none" <=> thread[d] = "none"
  BY DEF AIInv, AITypeOK, RecordOverage, Moves
<1>4. policy'[s][o].version = policy[s][o].version /\ ~policy'[s][o].enabled
  BY <1>2 DEF AIInv, AITypeOK, PolicyRow, RecordOverage, Disabled
<1>5. policy[s][o].version \in Nat
  BY <1>2 DEF AIInv, AITypeOK, PolicyRow
<1>6. ASSUME NEW d \in disturbed' \ disturbed
      PROVE  thread[d] # "none" /\ Past(request[d].service, request[d].org, request[d].version)'
  <2>1. d \in Calls /\ thread[d] # "none" /\ request[d].service = s /\ request[d].org = o
    BY DEF RecordOverage, CallsOf, Active
  <2>2. request[d].version \in Nat /\ request[d].version <= policy[s][o].version
    BY <2>1 DEF AIInv, AITypeOK, RequestRow, RequestsOK
  <2>3. QED
    BY <1>3, <1>4, <1>5, <2>1, <2>2 DEF Past
<1>7. ASSUME NEW s1 \in Services, NEW o1 \in Orgs, NEW v \in Nat,
             <<s1, o1, v>> \in stopped' \ stopped
      PROVE  Past(s1, o1, v)'
  <2>1. s1 = s /\ o1 = o /\ v = policy[s][o].version
    BY <1>7 DEF RecordOverage
  <2>2. QED
    BY <1>4, <2>1 DEF Past
<1>8. RequestsOK' /\ DisturbedOK' /\ StoppedOK'
  BY <1>1, <1>3, <1>6, <1>7, PolicyInvariant
<1>9. CompletedOK'
  BY DEF AIInv, AITypeOK, CompletedOK, RecordOverage, Moves
<1>10. QED
  BY <1>1, <1>8, <1>9 DEF AIInv

\* A new call starts with a version that holds.
LEMMA ReserveInvariant ==
  ASSUME AIInv, NEW c \in Calls, NEW s \in Services, NEW o \in Orgs, NEW u \in Users,
         NEW created \in Stamps, Reserve(c, s, o, u, created)
  PROVE  AIInv'
<1>1. AITypeOK'
  BY ReserveTypes
<1>2. policy' = policy /\ disturbed' = disturbed /\ stopped' = stopped
  BY DEF Reserve, rules
<1>3. /\ \A d \in Calls \ {c} : request'[d] = request[d] /\ thread'[d] = thread[d]
                                /\ status'[d] = status[d]
      /\ request'[c].service = s /\ request'[c].org = o /\ request'[c].actor = u
      /\ request'[c].version = policy[s][o].version
      /\ thread[c] = "none" /\ thread'[c] = "reserved" /\ status'[c] = "reserved"
  BY DEF AIInv, AITypeOK, Reserve
<1>4. policy[s][o].version \in Nat
  BY DEF AIInv, AITypeOK, PolicyRow
<1>5. RequestsOK'
  BY <1>2, <1>3, <1>4 DEF AIInv, RequestsOK
<1>6. DisturbedOK'
  BY <1>2, <1>3 DEF AIInv, AITypeOK, DisturbedOK, Past
<1>7. StoppedOK'
  BY <1>2 DEF AIInv, StoppedOK, Past
<1>8. CompletedOK'
  BY <1>3 DEF AIInv, CompletedOK
<1>9. QED
  BY <1>1, <1>5, <1>6, <1>7, <1>8 DEF AIInv

\* The invariant is inductive.
LEMMA StepInvariant == AIInv /\ [AINext]_aiVars => AIInv'
<1> SUFFICES ASSUME AIInv, [AINext]_aiVars PROVE AIInv'
  OBVIOUS
<1> USE DEF AIInv
<1>1. CASE UNCHANGED aiVars
  BY <1>1 DEF aiVars, AITypeOK, RequestsOK, DisturbedOK, StoppedOK, CompletedOK, Past
<1>2. CASE NextMonth
  <2>1. month' \in Months
    BY <1>2, AIAssumption DEF NextMonth, AITypeOK, Months
  <2>2. QED
    BY <1>2, <2>1 DEF NextMonth, money, rules, AITypeOK, RequestsOK, DisturbedOK,
                      StoppedOK, CompletedOK, Past
<1>3. ASSUME NEW o \in Orgs, NEW owner \in Users, NEW user \in Users,
             NEW new \in RolesOffered, UpdateMemberAccess(o, owner, user, new)
      PROVE  AIInv'
  <2>1. AITypeOK'
    BY <1>3, AccessTypes
  <2>2. QED
    BY <1>3, <2>1 DEF UpdateMemberAccess, money, RequestsOK, DisturbedOK, StoppedOK,
                      CompletedOK, Past
<1>4. ASSUME NEW s \in Services, NEW o \in Orgs, NEW owner \in Users,
             NEW enabled \in BOOLEAN, NEW terms \in Terms,
             Configure(s, o, owner, enabled, terms)
      PROVE  AIInv'
  BY <1>4, ConfigureInvariant
<1>5. ASSUME NEW c \in Calls, NEW s \in Services, NEW o \in Orgs, NEW u \in Users,
             NEW created \in Stamps, Reserve(c, s, o, u, created)
      PROVE  AIInv'
  BY <1>5, ReserveInvariant
<1>6. ASSUME NEW c \in Calls, Advance(c) \/ Crash(c)
      PROVE  AIInv'
  BY <1>6, AdvanceTypes, WorkerInvariant
<1>7. ASSUME NEW c \in Calls, NEW reported \in Costs \cup {NoCost},
             RejectAnswer(c) \/ Complete(c, reported)
      PROVE  AIInv'
  BY <1>7, AnswerTypes, WorkerInvariant
<1>8. ASSUME NEW c \in Calls, NEW reported \in Costs \cup {NoCost},
             RecordOverage(c, reported)
      PROVE  AIInv'
  BY <1>8, OverageInvariant
<1>9. QED
  BY <1>1, <1>2, <1>3, <1>4, <1>5, <1>6, <1>7, <1>8 DEF AINext

\* The invariant holds in every reachable state.
LEMMA Invariant == AISpec => []AIInv
BY InitInvariant, StepInvariant, PTL DEF AISpec

-----------------------------------------------------------------------------
(* What the invariant gives. *)

\* The tables of the paid calls hold rows of their models.
THEOREM AITypeCorrect == AISpec => []AITypeOK
<1>1. AIInv => AITypeOK
  BY DEF AIInv
<1>2. QED
  BY <1>1, Invariant, PTL

\* A call under the consent it was admitted with was never disturbed.
LEMMA ConsentIsUndisturbed ==
  ASSUME AIInv, NEW c \in Calls, thread[c] # "none", Consent(c)
  PROVE  c \notin disturbed
<1> DEFINE p == policy[request[c].service][request[c].org]
<1>1. p.version \in Nat /\ p.version = request[c].version /\ p.enabled
  BY DEF AIInv, AITypeOK, RequestsOK, PolicyRow, Consent, Approved
<1>2. ~Past(request[c].service, request[c].org, request[c].version)
  BY <1>1 DEF Past
<1>3. QED
  BY <1>2 DEF AIInv, DisturbedOK

\* An answer of the external model passes only under one consent, unbroken since the
\* reservation: the second _check_policy and policy_version suffice for it.
THEOREM AnswersPassUnderOneConsent == AISpec => OneConsentThroughout
<1>1. AIInv /\ [AINext]_aiVars =>
      [\A c \in Calls : thread[c] # "ranked" /\ thread'[c] = "ranked" => c \notin disturbed]_aiVars
  <2> SUFFICES ASSUME AIInv, AINext, NEW c \in Calls,
                      thread[c] # "ranked", thread'[c] = "ranked"
               PROVE  c \notin disturbed
    BY DEF aiVars
  <2>1. FinalCheck(c)
    <3> USE DEF AIInv, AITypeOK, Moves, money, rules
    <3>1. CASE NextMonth
      BY <3>1 DEF NextMonth
    <3>2. CASE \E o \in Orgs, owner, user \in Users, new \in RolesOffered :
                 UpdateMemberAccess(o, owner, user, new)
      BY <3>2 DEF UpdateMemberAccess
    <3>3. CASE \E s \in Services, o \in Orgs, owner \in Users, enabled \in BOOLEAN,
                  terms \in Terms : Configure(s, o, owner, enabled, terms)
      BY <3>3 DEF Configure
    <3>4. CASE \E d \in Calls, s \in Services, o \in Orgs, u \in Users, created \in Stamps :
                 Reserve(d, s, o, u, created)
      BY <3>4 DEF Reserve
    <3>5. CASE \E d \in Calls : Advance(d) \/ Crash(d)
      BY <3>5 DEF Advance, Crash, CheckPolicy, Dispatch, Timeout, FinalCheck, Refuse, Deny,
                  HandleFailure, Deliver
    <3>6. CASE \E d \in Calls, reported \in Costs \cup {NoCost} :
                 RejectAnswer(d) \/ Complete(d, reported) \/ RecordOverage(d, reported)
      BY <3>6 DEF RejectAnswer, Complete, RecordOverage
    <3>7. QED
      BY <3>1, <3>2, <3>3, <3>4, <3>5, <3>6 DEF AINext
  <2>2. thread[c] # "none" /\ Consent(c)
    BY <2>1 DEF FinalCheck, Moves
  <2>3. QED
    BY <2>2, ConsentIsUndisturbed
<1>2. QED
  BY <1>1, Invariant, PTL DEF AISpec, OneConsentThroughout

\* The step that admits a call is its reservation.
LEMMA AdmissionIsReserve ==
  ASSUME AIInv, AINext, NEW c \in Calls, thread[c] = "none", thread'[c] # "none"
  PROVE  \E s \in Services, o \in Orgs, u \in Users, created \in Stamps :
           Reserve(c, s, o, u, created)
<1> USE DEF AIInv, AITypeOK, Moves, money, rules
<1>1. CASE NextMonth
  BY <1>1 DEF NextMonth
<1>2. CASE \E o \in Orgs, owner, user \in Users, new \in RolesOffered :
             UpdateMemberAccess(o, owner, user, new)
  BY <1>2 DEF UpdateMemberAccess
<1>3. CASE \E s \in Services, o \in Orgs, owner \in Users, enabled \in BOOLEAN,
              terms \in Terms : Configure(s, o, owner, enabled, terms)
  BY <1>3 DEF Configure
<1>4. ASSUME NEW d \in Calls, NEW s \in Services, NEW o \in Orgs, NEW u \in Users,
             NEW created \in Stamps, Reserve(d, s, o, u, created)
      PROVE  d = c
  BY <1>4 DEF Reserve
<1>5. ASSUME NEW d \in Calls, Advance(d) \/ Crash(d)
      PROVE  FALSE
  BY <1>5, AdvanceTypes DEF WorkerStep
<1>6. ASSUME NEW d \in Calls, NEW reported \in Costs \cup {NoCost},
             RejectAnswer(d) \/ Complete(d, reported) \/ RecordOverage(d, reported)
      PROVE  FALSE
  BY <1>6 DEF RejectAnswer, Complete, RecordOverage
<1>7. QED
  BY <1>1, <1>2, <1>3, <1>4, <1>5, <1>6 DEF AINext

\* After an overage only an owner's new version of the policy admits calls again.
THEOREM StoppedVersionsStayStopped == AISpec => StoppedVersionsAdmitNothing
<1>1. AIInv /\ [AINext]_aiVars =>
      [\A c \in Calls : thread[c] = "none" /\ thread'[c] # "none" =>
         <<request'[c].service, request'[c].org, request'[c].version>> \notin stopped]_aiVars
  <2> SUFFICES ASSUME AIInv, AINext, NEW c \in Calls, thread[c] = "none", thread'[c] # "none"
               PROVE  <<request'[c].service, request'[c].org, request'[c].version>> \notin stopped
    BY DEF aiVars
  <2>1. PICK s \in Services, o \in Orgs, u \in Users, created \in Stamps :
          Reserve(c, s, o, u, created)
    BY AdmissionIsReserve
  <2>2. /\ request'[c].service = s /\ request'[c].org = o
        /\ request'[c].version = policy[s][o].version
    BY <2>1 DEF Reserve, AIInv, AITypeOK
  <2>3. policy[s][o].version \in Nat /\ policy[s][o].enabled
    BY <2>1 DEF Reserve, Approved, AIInv, AITypeOK, PolicyRow
  <2>4. ~Past(s, o, policy[s][o].version)
    BY <2>3 DEF Past
  <2>5. QED
    BY <2>2, <2>3, <2>4 DEF AIInv, StoppedOK
<1>2. QED
  BY <1>1, Invariant, PTL DEF AISpec, StoppedVersionsAdmitNothing

\* Whatever fails after it, a completed reservation keeps its status and its cost.
THEOREM CompletedStaysCompleted == AISpec => CompletedIsFinal
<1>1. AIInv /\ [AINext]_aiVars =>
      [\A c \in Calls : status[c] = "completed" =>
         status'[c] = "completed" /\ cost'[c] = cost[c]]_aiVars
  <2> SUFFICES ASSUME AIInv, AINext, NEW c \in Calls, status[c] = "completed"
               PROVE  status'[c] = "completed" /\ cost'[c] = cost[c]
    BY DEF aiVars
  <2> USE DEF AIInv, AITypeOK, CompletedOK, Moves, money, rules
  <2>1. CASE NextMonth
    BY <2>1 DEF NextMonth
  <2>2. CASE \E o \in Orgs, owner, user \in Users, new \in RolesOffered :
               UpdateMemberAccess(o, owner, user, new)
    BY <2>2 DEF UpdateMemberAccess
  <2>3. CASE \E s \in Services, o \in Orgs, owner \in Users, enabled \in BOOLEAN,
                terms \in Terms : Configure(s, o, owner, enabled, terms)
    BY <2>3 DEF Configure
  <2>4. CASE \E d \in Calls, s \in Services, o \in Orgs, u \in Users, created \in Stamps :
               Reserve(d, s, o, u, created)
    BY <2>4 DEF Reserve
  <2>5. CASE \E d \in Calls : Advance(d) \/ Crash(d)
    BY <2>5 DEF Advance, Crash, CheckPolicy, Dispatch, Timeout, FinalCheck, Refuse, Deny,
                HandleFailure, Deliver
  <2>6. CASE \E d \in Calls, reported \in Costs \cup {NoCost} :
               RejectAnswer(d) \/ Complete(d, reported) \/ RecordOverage(d, reported)
    BY <2>6 DEF RejectAnswer, Complete, RecordOverage
  <2>7. QED
    BY <2>1, <2>2, <2>3, <2>4, <2>5, <2>6 DEF AINext
<1>2. QED
  BY <1>1, Invariant, PTL DEF AISpec, CompletedIsFinal

\* No counter of a budget ever goes down, whatever becomes of the calls.
THEOREM ReservationsAreKept == AISpec => NothingIsRefunded
<1>1. AIInv /\ [AINext]_aiVars =>
      [\A k \in DOMAIN counter : k \in DOMAIN counter' /\ counter'[k] >= counter[k]]_aiVars
  <2> SUFFICES ASSUME AIInv, AINext, NEW k \in DOMAIN counter
               PROVE  k \in DOMAIN counter' /\ counter'[k] >= counter[k]
    BY DEF aiVars
  <2>1. counter[k] \in Nat
    BY DEF AIInv, AITypeOK
  <2>2. CASE UNCHANGED counter
    BY <2>1, <2>2
  <2>3. ASSUME NEW c \in Calls, NEW s \in Services, NEW o \in Orgs, NEW u \in Users,
               NEW created \in Stamps, Reserve(c, s, o, u, created)
        PROVE  k \in DOMAIN counter' /\ counter'[k] >= counter[k]
    BY <2>1, <2>3, AIAssumption DEF Reserve, Spent
  <2>4. ASSUME NEW c \in Calls, NEW reported \in Costs \cup {NoCost}, RecordOverage(c, reported)
        PROVE  k \in DOMAIN counter' /\ counter'[k] >= counter[k]
    <3>1. reported - Ceiling \in Nat
      BY <2>4, AIAssumption DEF RecordOverage
    <3>2. QED
      BY <2>1, <2>4, <3>1 DEF RecordOverage, Corrected, Adjusted
  <2> USE DEF money, rules
  <2>5. ASSUME NEW c \in Calls, Advance(c) \/ Crash(c)
        PROVE  UNCHANGED counter
    BY <2>5, AdvanceTypes DEF WorkerStep
  <2>6. ASSUME NEW c \in Calls, NEW reported \in Costs \cup {NoCost},
               RejectAnswer(c) \/ Complete(c, reported)
        PROVE  UNCHANGED counter
    BY <2>6 DEF RejectAnswer, Complete
  <2>7. CASE \/ NextMonth
             \/ \E o \in Orgs, owner, user \in Users, new \in RolesOffered :
                  UpdateMemberAccess(o, owner, user, new)
             \/ \E s \in Services, o \in Orgs, owner \in Users, enabled \in BOOLEAN,
                   terms \in Terms : Configure(s, o, owner, enabled, terms)
    BY <2>2, <2>7 DEF NextMonth, UpdateMemberAccess, Configure
  <2>8. QED
    BY <2>2, <2>3, <2>4, <2>5, <2>6, <2>7 DEF AINext
<1>2. QED
  BY <1>1, Invariant, PTL DEF AISpec, NothingIsRefunded

-----------------------------------------------------------------------------
(* The counters are the sums of the calls. *)

\* The sum over some calls is a natural number.
LEMMA SumOfCalls ==
  ASSUME NEW S \in SUBSET Calls, NEW ch \in [Calls -> Nat]
  PROVE  IsFiniteSet(Units(RowsOf(S, ch))) /\ Total(RowsOf(S, ch)) \in Nat
<1> DEFINE rows == RowsOf(S, ch)
           f == [c \in S |-> [call |-> c, amount |-> ch[c]]]
<1>1. IsFiniteSet(S)
  <2>1. IsFiniteSet(Calls)
    BY FS_Interval, AIAssumption DEF Calls
  <2>2. QED
    BY <2>1, FS_Subset
<1>2. f \in Surjection(S, rows)
  BY DEF Surjection, RowsOf
<1>3. IsFiniteSet(rows)
  <2> HIDE DEF f, rows
  <2> QED BY <1>1, <1>2, FS_Surjection
<1>4. \A r \in rows : r.amount \in Nat
  BY DEF RowsOf
<1> HIDE DEF rows
<1>5. IsFiniteSet(Units(rows)) /\ Total(rows) \in Nat
  BY <1>3, <1>4, TotalType
<1>6. QED
  BY <1>5 DEF rows

\* One call more adds its charge.
LEMMA SumWithCall ==
  ASSUME NEW S \in SUBSET Calls, NEW ch \in [Calls -> Nat], NEW c \in Calls, c \notin S
  PROVE  Total(RowsOf(S \cup {c}, ch)) = Total(RowsOf(S, ch)) + ch[c]
<1> DEFINE row == [call |-> c, amount |-> ch[c]]
<1>1. RowsOf(S \cup {c}, ch) = RowsOf(S, ch) \cup {row}
  BY DEF RowsOf
<1>2. row \notin RowsOf(S, ch) /\ row.amount = ch[c] /\ ch[c] \in Nat
  BY DEF RowsOf
<1>3. IsFiniteSet(Units(RowsOf(S, ch)))
  BY SumOfCalls
<1> HIDE DEF row
<1>4. QED
  BY <1>1, <1>2, <1>3, TotalAdd

\* Another charge for one call changes the sum by the difference.
LEMMA SumWithCharge ==
  ASSUME NEW S \in SUBSET Calls, NEW ch \in [Calls -> Nat], NEW new \in [Calls -> Nat],
         NEW c \in S, \A d \in S \ {c} : new[d] = ch[d]
  PROVE  Total(RowsOf(S, new)) = Total(RowsOf(S, ch)) + (new[c] - ch[c])
<1> DEFINE rest == S \ {c}
<1>1. RowsOf(rest, new) = RowsOf(rest, ch)
  BY DEF RowsOf
<1>2. rest \cup {c} = S /\ rest \in SUBSET Calls /\ c \notin rest /\ c \in Calls
  OBVIOUS
<1> HIDE DEF rest
<1>3. /\ Total(RowsOf(rest \cup {c}, ch)) = Total(RowsOf(rest, ch)) + ch[c]
      /\ Total(RowsOf(rest \cup {c}, new)) = Total(RowsOf(rest, new)) + new[c]
  BY <1>2, SumWithCall
<1>4. Total(RowsOf(rest, ch)) \in Nat /\ ch[c] \in Nat /\ new[c] \in Nat
  BY <1>2, SumOfCalls
<1>5. /\ Total(RowsOf(S, ch)) = Total(RowsOf(rest, ch)) + ch[c]
      /\ Total(RowsOf(S, new)) = Total(RowsOf(rest, ch)) + new[c]
  BY <1>1, <1>2, <1>3
<1>6. QED
  BY <1>4, <1>5

\* A cost is recorded only after the call was sent.
CostsOK ==
  \A c \in Calls : cost[c] # NoCost => thread[c] \notin {"none", "reserved", "checked", "sent"}

\* Reservations are stamped in the month they were counted in.
StampsOK == \A c \in Calls : thread[c] # "none" => request[c].created = request[c].month

BudgetInv == AIInv /\ CostsOK /\ StampsOK /\ CountersMatch

\* Calls without a recorded cost count for the ceiling.
LEMMA ChargesType ==
  ASSUME AITypeOK
  PROVE  /\ Charges \in [Calls -> Nat]
         /\ \A c \in Calls : cost[c] = NoCost => Charges[c] = Ceiling
BY AIAssumption DEF AITypeOK, Charges

\* The budget invariant holds before any call.
LEMMA InitBudget == AIInit => BudgetInv
<1>1. AIInit => CostsOK /\ StampsOK /\ CountersMatch
  BY DEF AIInit, CostsOK, StampsOK, CountersMatch
<1>2. QED
  BY <1>1, InitInvariant DEF BudgetInv

\* A step that neither admits a call nor changes what one counts for.
QuietStep ==
  /\ UNCHANGED <<counter, request>>
  /\ \A c \in Calls : thread'[c] = "none" <=> thread[c] = "none"
  /\ Charges' = Charges
  /\ CostsOK'

\* A quiet step keeps every counter and every sum.
LEMMA QuietBudget ==
  ASSUME BudgetInv, AIInv', QuietStep
  PROVE  BudgetInv'
<1>1. \A k : ChargedTo(k)' = ChargedTo(k)
  BY DEF QuietStep, ChargedTo, KeysOfCall
<1>2. \A k : Charged(k)' = Charged(k)
  BY <1>1 DEF QuietStep, Charged
<1>3. CountersMatch'
  BY <1>2 DEF BudgetInv, QuietStep, CountersMatch, KeysOfCall
<1>4. StampsOK'
  BY DEF BudgetInv, QuietStep, StampsOK
<1>5. QED
  BY <1>3, <1>4 DEF BudgetInv, QuietStep

\* A reservation adds the ceiling to three counters and to the same three sums.
LEMMA ReserveBudget ==
  ASSUME MidnightInside = FALSE, BudgetInv, AIInv', NEW c \in Calls, NEW s \in Services,
         NEW o \in Orgs, NEW u \in Users, NEW created \in Stamps, Reserve(c, s, o, u, created)
  PROVE  BudgetInv'
<1> DEFINE keys == KeysOf(s, o, u, month)
<1>1. created = month
  BY DEF Stamps
<1>2. /\ \A d \in Calls \ {c} : request'[d] = request[d] /\ thread'[d] = thread[d]
      /\ request'[c].service = s /\ request'[c].org = o /\ request'[c].actor = u
      /\ request'[c].month = month /\ request'[c].created = created
      /\ thread[c] = "none" /\ thread'[c] = "reserved" /\ cost' = cost
  BY DEF BudgetInv, AIInv, AITypeOK, Reserve
<1>3. CostsOK' /\ StampsOK'
  BY <1>1, <1>2 DEF BudgetInv, CostsOK, StampsOK
<1>4. Charges' = Charges /\ Charges \in [Calls -> Nat] /\ Charges[c] = Ceiling
  BY <1>2, ChargesType DEF BudgetInv, AIInv, CostsOK, Charges
<1>5. KeysOfCall(c)' = keys /\ \A d \in Calls \ {c} : KeysOfCall(d)' = KeysOfCall(d)
  BY <1>2 DEF KeysOfCall
<1>6. ASSUME NEW k
      PROVE  /\ c \notin ChargedTo(k) /\ ChargedTo(k) \in SUBSET Calls
             /\ k \in keys => ChargedTo(k)' = ChargedTo(k) \cup {c}
             /\ k \notin keys => ChargedTo(k)' = ChargedTo(k)
  BY <1>2, <1>5 DEF ChargedTo
<1> HIDE DEF keys
<1>7. ASSUME NEW k
      PROVE  /\ Charged(k) \in Nat
             /\ k \in keys => Charged(k)' = Charged(k) + Ceiling
             /\ k \notin keys => Charged(k)' = Charged(k)
  <2>1. Charged(k) \in Nat
    BY <1>4, <1>6, SumOfCalls DEF Charged
  <2>2. Total(RowsOf(ChargedTo(k) \cup {c}, Charges)) = Charged(k) + Ceiling
    BY <1>4, <1>6, SumWithCall DEF Charged
  <2>3. Charged(k)' = Total(RowsOf(ChargedTo(k)', Charges))
    BY <1>4 DEF Charged
  <2>4. QED
    BY <1>6, <2>1, <2>2, <2>3 DEF Charged
<1>8. ASSUME NEW k \in DOMAIN counter'
      PROVE  counter'[k] = Charged(k)'
  <2>1. counter'[k] = Spent(k) + IF k \in keys THEN Ceiling ELSE 0
    BY DEF Reserve, keys
  <2>2. Spent(k) = Charged(k)
    <3>1. CASE k \in DOMAIN counter
      BY <3>1 DEF BudgetInv, CountersMatch, Spent
    <3>2. CASE k \notin DOMAIN counter
      <4>1. ChargedTo(k) = {}
        BY <3>2 DEF BudgetInv, CountersMatch, ChargedTo
      <4>2. Charged(k) = 0
        BY <4>1, TotalEmpty DEF Charged, RowsOf
      <4>3. QED
        BY <3>2, <4>2 DEF Spent
    <3>3. QED
      BY <3>1, <3>2
  <2>3. QED
    BY <1>7, <2>1, <2>2, AIAssumption
<1>9. DOMAIN counter' = DOMAIN counter \cup keys
  BY DEF Reserve, keys
<1>10. \A d \in Calls : thread'[d] # "none" => KeysOfCall(d)' \subseteq DOMAIN counter'
  BY <1>2, <1>5, <1>9 DEF BudgetInv, CountersMatch
<1>11. QED
  BY <1>3, <1>8, <1>10 DEF BudgetInv, CountersMatch

\* An overage adds the difference to the counters the call was reserved against.
LEMMA OverageBudget ==
  ASSUME BudgetInv, AIInv', NEW c \in Calls, NEW reported \in Costs \cup {NoCost},
         RecordOverage(c, reported)
  PROVE  BudgetInv'
<1>1. /\ thread[c] = "sent" /\ \A d \in Calls : thread'[d] = "none" <=> thread[d] = "none"
      /\ request' = request /\ cost' = [cost EXCEPT ![c] = reported]
      /\ cost[c] = NoCost /\ thread'[c] = "failed"
      /\ \A d \in Calls \ {c} : thread'[d] = thread[d]
  BY DEF BudgetInv, AIInv, AITypeOK, CostsOK, RecordOverage, Moves
<1>2. CostsOK' /\ StampsOK'
  BY <1>1 DEF BudgetInv, AIInv, AITypeOK, CostsOK, StampsOK
<1>3. reported \in Nat /\ reported > Ceiling
  BY AIAssumption DEF RecordOverage
<1>4. /\ Charges \in [Calls -> Nat] /\ Charges' \in [Calls -> Nat]
      /\ Charges[c] = Ceiling /\ Charges'[c] = reported
      /\ \A d \in Calls \ {c} : Charges'[d] = Charges[d]
  <2>1. Charges \in [Calls -> Nat] /\ Charges[c] = Ceiling
    BY <1>1, ChargesType DEF BudgetInv, AIInv
  <2>2. Charges' = [d \in Calls |->
          IF cost'[d] # NoCost /\ cost'[d] > Ceiling THEN cost'[d] ELSE Ceiling]
    BY DEF Charges
  <2>3. cost \in [Calls -> Nat \cup {NoCost}] /\ cost' \in [Calls -> Nat \cup {NoCost}]
    BY DEF BudgetInv, AIInv, AITypeOK
  <2>4. Charges'[c] = reported /\ \A d \in Calls \ {c} : Charges'[d] = Charges[d]
    BY <1>1, <1>3, <2>2, <2>3, AIAssumption DEF Charges
  <2>5. Charges' \in [Calls -> Nat]
    BY <2>2, <2>3, AIAssumption
  <2>6. QED
    BY <2>1, <2>4, <2>5
<1>5. ASSUME NEW k
      PROVE ChargedTo(k)' = ChargedTo(k) /\ ChargedTo(k) \in SUBSET Calls
  BY <1>1 DEF ChargedTo, KeysOfCall
<1>6. ASSUME NEW k
      PROVE  /\ k \in KeysOfCall(c) => Charged(k)' = Charged(k) + (reported - Ceiling)
             /\ k \notin KeysOfCall(c) => Charged(k)' = Charged(k)
  <2>1. Charged(k)' = Total(RowsOf(ChargedTo(k), Charges'))
    BY <1>5 DEF Charged
  <2>2. CASE k \in KeysOfCall(c)
    <3>1. c \in ChargedTo(k)
      BY <1>1, <2>2 DEF ChargedTo
    <3>2. Total(RowsOf(ChargedTo(k), Charges'))
            = Total(RowsOf(ChargedTo(k), Charges)) + (Charges'[c] - Charges[c])
      BY <1>4, <1>5, <3>1, SumWithCharge
    <3>3. QED
      BY <1>4, <2>1, <2>2, <3>2 DEF Charged
  <2>3. CASE k \notin KeysOfCall(c)
    <3>1. c \notin ChargedTo(k)
      BY <2>3 DEF ChargedTo
    <3>2. RowsOf(ChargedTo(k), Charges') = RowsOf(ChargedTo(k), Charges)
      BY <1>4, <1>5, <3>1 DEF RowsOf
    <3>3. QED
      BY <2>1, <2>3, <3>2 DEF Charged
  <2>4. QED
    BY <2>2, <2>3
<1>7. counter' = Adjusted(KeysOfCall(c), reported)
  BY <1>1 DEF BudgetInv, StampsOK, RecordOverage, Corrected, KeysOfCall
<1>8. \A k \in DOMAIN counter' : counter'[k] = Charged(k)'
  BY <1>6, <1>7 DEF BudgetInv, CountersMatch, Adjusted
<1>9. \A d \in Calls : thread'[d] # "none" => KeysOfCall(d)' \subseteq DOMAIN counter'
  BY <1>1, <1>7 DEF BudgetInv, CountersMatch, KeysOfCall, Adjusted
<1>10. QED
  BY <1>2, <1>8, <1>9 DEF BudgetInv, CountersMatch

\* Every other step is quiet.
LEMMA WorkerIsQuiet ==
  ASSUME BudgetInv, NEW c \in Calls, Advance(c) \/ Crash(c)
  PROVE  QuietStep
<1>1. WorkerStep(c)
  BY AdvanceTypes DEF BudgetInv
<1>2. cost' = cost /\ (cost[c] # NoCost =>
                        thread'[c] \notin {"none", "reserved", "checked", "sent"})
  BY DEF BudgetInv, AIInv, AITypeOK, CostsOK, Advance, Crash, Active, Moves, money,
         CheckPolicy, Dispatch, Timeout, FinalCheck, Refuse, Deny, HandleFailure, Deliver
<1>3. QED
  BY <1>1, <1>2 DEF BudgetInv, CostsOK, WorkerStep, QuietStep, Charges

\* An answer within the ceiling changes no charge.
LEMMA AnswerIsQuiet ==
  ASSUME BudgetInv, NEW c \in Calls, NEW reported \in Costs \cup {NoCost},
         RejectAnswer(c) \/ Complete(c, reported)
  PROVE  QuietStep
<1>1. WorkerStep(c)
  BY AnswerTypes DEF BudgetInv
<1>2. cost[c] = NoCost
  BY DEF BudgetInv, CostsOK, RejectAnswer, Complete, Moves
<1>3. CASE RejectAnswer(c)
  BY <1>1, <1>2, <1>3 DEF RejectAnswer, BudgetInv, CostsOK, WorkerStep, QuietStep, Charges
<1>4. CASE Complete(c, reported)
  <2>1. cost' = [cost EXCEPT ![c] = reported] /\ thread'[c] = "completed"
        /\ cost \in [Calls -> Nat \cup {NoCost}]
    BY <1>4 DEF BudgetInv, AIInv, AITypeOK, Complete, Moves
  <2>2. \/ reported = NoCost
        \/ reported \in Nat /\ ~(reported > Ceiling)
    BY <1>4, AIAssumption DEF Complete
  <2>3. Charges' = Charges
    BY <1>2, <2>1, <2>2 DEF Charges
  <2>4. CostsOK'
    BY <1>1, <2>1 DEF BudgetInv, CostsOK, WorkerStep
  <2>5. QED
    BY <1>1, <2>3, <2>4 DEF WorkerStep, QuietStep
<1>5. QED
  BY <1>3, <1>4

\* The budget invariant is inductive.
LEMMA StepBudget ==
  ASSUME MidnightInside = FALSE
  PROVE  BudgetInv /\ [AINext]_aiVars => BudgetInv'
<1> SUFFICES ASSUME BudgetInv, [AINext]_aiVars PROVE BudgetInv'
  OBVIOUS
<1>0. AIInv'
  BY StepInvariant DEF BudgetInv
<1>1. CASE \/ UNCHANGED aiVars \/ NextMonth
           \/ \E o \in Orgs, owner, user \in Users, new \in RolesOffered :
                UpdateMemberAccess(o, owner, user, new)
           \/ \E s \in Services, o \in Orgs, owner \in Users, enabled \in BOOLEAN,
                 terms \in Terms : Configure(s, o, owner, enabled, terms)
  <2>1. UNCHANGED <<counter, request, thread, cost>>
    BY <1>1 DEF aiVars, NextMonth, UpdateMemberAccess, Configure, money
  <2>2. QuietStep
    BY <2>1 DEF BudgetInv, CostsOK, QuietStep, Charges
  <2>3. QED
    BY <1>0, <2>2, QuietBudget
<1>2. ASSUME NEW c \in Calls, NEW s \in Services, NEW o \in Orgs, NEW u \in Users,
             NEW created \in Stamps, Reserve(c, s, o, u, created)
      PROVE  BudgetInv'
  BY <1>0, <1>2, ReserveBudget
<1>3. ASSUME NEW c \in Calls, Advance(c) \/ Crash(c)
      PROVE  BudgetInv'
  BY <1>0, <1>3, WorkerIsQuiet, QuietBudget
<1>4. ASSUME NEW c \in Calls, NEW reported \in Costs \cup {NoCost},
             RejectAnswer(c) \/ Complete(c, reported)
      PROVE  BudgetInv'
  BY <1>0, <1>4, AnswerIsQuiet, QuietBudget
<1>5. ASSUME NEW c \in Calls, NEW reported \in Costs \cup {NoCost}, RecordOverage(c, reported)
      PROVE  BudgetInv'
  BY <1>0, <1>5, OverageBudget
<1>6. QED
  BY <1>1, <1>2, <1>3, <1>4, <1>5 DEF AINext

\* As long as no reservation is stamped in another month than it was counted in, every
\* counter is the sum of what its calls count for, whatever became of them.
THEOREM CountersAlwaysMatch ==
  ASSUME MidnightInside = FALSE
  PROVE  AISpec => []CountersMatch
<1>1. AIInit => BudgetInv
  BY InitBudget
<1>2. BudgetInv /\ [AINext]_aiVars => BudgetInv'
  BY StepBudget
<1>3. BudgetInv => CountersMatch
  BY DEF BudgetInv
<1>4. QED
  BY <1>1, <1>2, <1>3, PTL DEF AISpec

\* What the conditional updates compare is, after them, what the counters hold.
LEMMA ReserveWithinLimits ==
  ASSUME BudgetInv, BudgetInv', NEW c \in Calls, NEW s \in Services, NEW o \in Orgs, NEW u \in Users,
         NEW created \in Stamps, Reserve(c, s, o, u, created)
  PROVE  ChargedWithinLimits(c)'
<1> DEFINE keys == KeysOf(s, o, u, month)
<1>1. /\ WithinLimits(s, o, u) /\ policy' = policy /\ thread'[c] # "none"
      /\ request'[c].service = s /\ request'[c].org = o /\ request'[c].actor = u
      /\ request'[c].month = month
  BY DEF Reserve, rules, BudgetInv, AIInv, AITypeOK
<1>2. \A k \in keys : counter'[k] = Spent(k) + Ceiling /\ k \in DOMAIN counter'
  BY DEF Reserve
<1>3. \A k \in DOMAIN counter' : counter'[k] = Charged(k)'
  BY DEF BudgetInv, CountersMatch
<1>4. \A k \in keys : Charged(k)' = Spent(k) + Ceiling
  BY <1>2, <1>3
<1>5. GlobalKey(month) \in keys /\ TeamKey(s, o, month) \in keys /\ UserKey(u, month) \in keys
  BY DEF KeysOf
<1>6. ASSUME NEW k, k = GlobalKey(month) PROVE Charged(k)' <= Budget
  BY <1>1, <1>4, <1>5, <1>6 DEF WithinLimits
<1>7. ASSUME NEW k, k = TeamKey(s, o, month) PROVE Charged(k)' <= policy[s][o].budget
  BY <1>1, <1>4, <1>5, <1>7 DEF WithinLimits
<1>8. ASSUME NEW k, k = UserKey(u, month) PROVE Charged(k)' <= UserBudget
  BY <1>1, <1>4, <1>5, <1>8 DEF WithinLimits
<1> QED
  BY <1>1, <1>6, <1>7, <1>8 DEF ChargedWithinLimits, Charged, ChargedTo, RowsOf, GlobalKey, TeamKey, UserKey

\* As long as no reservation is stamped in another month than it was counted in, a call is
\* admitted only when everything charged before leaves room for it, in the deployment, the
\* company's service and for the user (_reserve_external, _reserve).
THEOREM AdmittedCallsFindTheirMoney ==
  ASSUME MidnightInside = FALSE
  PROVE  AISpec => AdmissionWithinLimits
<1>1. AIInit => BudgetInv
  BY InitBudget
<1>2. BudgetInv /\ [AINext]_aiVars => BudgetInv'
  BY StepBudget
<1>3. BudgetInv /\ BudgetInv' /\ [AINext]_aiVars =>
        [\A c \in Calls : thread[c] = "none" /\ thread'[c] # "none" => ChargedWithinLimits(c)']_aiVars
  <2> SUFFICES ASSUME BudgetInv, BudgetInv', AINext, NEW c \in Calls, thread[c] = "none", thread'[c] # "none"
               PROVE  ChargedWithinLimits(c)'
    OBVIOUS
  <2>1. PICK s \in Services, o \in Orgs, u \in Users, created \in Stamps : Reserve(c, s, o, u, created)
    BY AdmissionIsReserve DEF BudgetInv
  <2> QED
    BY <2>1, ReserveWithinLimits
<1> QED
  BY <1>1, <1>2, <1>3, PTL DEF AISpec, AdmissionWithinLimits
=============================================================================
