----------------------------- MODULE AlarmProofs -----------------------------
(***************************************************************************)
(* What is proved of the alarms, for any number of devices, any objects,   *)
(* clients and critical errors: the alarms are type correct, a full list   *)
(* of messages takes no more of them, every alarm keeps the promise of     *)
(* AlarmLifecycle; the red lamp and the siren follow the alarms; and no    *)
(* client goes on showing an old list.                                     *)
(***************************************************************************)
EXTENDS Siren, AlarmList, TLAPS, FiniteSetTheorems, WellFoundedInduction

-----------------------------------------------------------------------------
(* A version stays within its 16 bits.                                     *)
LEMMA BumpType == \A id \in Ids : Bump(id) \in Ids
BY SMT DEF Bump, Ids

(* The messages of an object are finitely many; removing one leaves fewer, *)
(* adding one gives one more at most.                                      *)
LEMMA MessageCount ==
    ASSUME NEW n \in Nat, NEW S \in SUBSET (1..n), NEW x
    PROVE  /\ IsFiniteSet(S) /\ Cardinality(S) \in Nat
           /\ Cardinality(S \ {x}) \in Nat
           /\ Cardinality(S \ {x}) <= Cardinality(S)
           /\ Cardinality(S \cup {x}) \in Nat
           /\ Cardinality(S \cup {x}) <= Cardinality(S) + 1
<1>1. IsFiniteSet(1..n)
  BY FS_Interval
<1>2. IsFiniteSet(S)
  BY <1>1, FS_Subset
<1>3. Cardinality(S) \in Nat
  BY <1>2, FS_CardinalityType
<1>4. /\ Cardinality(S \ {x}) \in Nat
      /\ Cardinality(S \ {x}) <= Cardinality(S)
  <2>1. CASE x \in S
    BY <1>2, <1>3, <2>1, FS_RemoveElement, FS_CardinalityType, FS_Subset
  <2>2. CASE x \notin S
    <3>1. S \ {x} = S
      BY <2>2
    <3>. QED BY <1>3, <3>1
  <2>. QED BY <2>1, <2>2
<1>5. /\ Cardinality(S \cup {x}) \in Nat
      /\ Cardinality(S \cup {x}) <= Cardinality(S) + 1
  <2>1. CASE x \in S
    <3>1. S \cup {x} = S
      BY <2>1
    <3>. QED BY <1>3, <3>1
  <2>2. CASE x \notin S
    BY <1>2, <1>3, <2>2, FS_AddElement
  <2>. QED BY <2>1, <2>2
<1>. QED BY <1>2, <1>3, <1>4, <1>5

(* An evaluated alarm is an alarm state.                                   *)
LEMMA NextStateType ==
    ASSUME NEW e \in AlarmStates, NEW bad \in BOOLEAN
    PROVE  NextState(e, bad) \in AlarmStates
BY DEF NextState, AlarmStates

(* Initially the alarms are type correct.                                  *)
LEMMA ErrorsInitType == ErrorsInit => ErrorsTypeOK
<1>1. Cardinality({}) = 0 /\ {} \in SUBSET (1..0)
  BY FS_EmptySet
<1>2. 0 \in Ids /\ 0 \in 0..MaxErrors /\ 0 \in Nat /\ 0 <= MaxErrors
  BY MaxErrorsAssumption, SMT DEF Ids
<1>. QED
  BY <1>1, <1>2
     DEF ErrorsInit, ErrorsTypeOK, NoAlarms, NoMessages, AlarmStates

(* A message given to an object respects the limit of its list.            *)
LEMMA SetErrMsgType ==
    ASSUME ErrorsTypeOK, NEW o \in Objects, SetErrMsg(o)
    PROVE  ErrorsTypeOK'
<1>. USE DEF ErrorsTypeOK, SetErrMsg, Room, Before, devvars, critvars
<1>1. number' \in Nat /\ number + 1 \in 1..number'
  OBVIOUS
<1>2. ASSUME NEW p \in Objects
      PROVE  msgs'[p] \in SUBSET (1..number') /\ Cardinality(msgs'[p]) <= MaxErrors
  <2>1. msgs[p] \in SUBSET (1..number')
    OBVIOUS
  <2>2. CASE p = o /\ Cardinality(msgs[o]) < MaxErrors
    <3>1. msgs'[p] = msgs[o] \cup {number + 1}
      BY <2>2
    <3>2. /\ Cardinality(msgs[o]) \in Nat
          /\ Cardinality(msgs[o] \cup {number + 1}) \in Nat
          /\ Cardinality(msgs[o] \cup {number + 1}) <= Cardinality(msgs[o]) + 1
      BY MessageCount
    <3>3. Cardinality(msgs'[p]) <= MaxErrors
      BY <2>2, <3>1, <3>2, MaxErrorsAssumption
    <3>. QED BY <1>1, <2>1, <2>2, <3>1, <3>3
  <2>3. CASE ~ (p = o /\ Cardinality(msgs[o]) < MaxErrors)
    <3>1. msgs'[p] = msgs[p]
      BY <2>3
    <3>. QED BY <2>1, <3>1
  <2>. QED BY <2>2, <2>3
<1>3. msgs' \in [Objects -> SUBSET (1..number')]
  <2>1. msgs' = [p \in Objects |-> msgs'[p]]
    OBVIOUS
  <2>. QED BY <1>2, <2>1
<1>. QED BY <1>1, <1>2, <1>3

(* Deleting a message leaves a list within its limit.                      *)
LEMMA DeleteMessageType ==
    ASSUME ErrorsTypeOK, NEW o \in Objects, NEW n, DeleteMessage(o, n)
    PROVE  ErrorsTypeOK'
<1>. USE DEF ErrorsTypeOK, DeleteMessage, Room, Before, devvars, critvars
<1>1. ASSUME NEW p \in Objects
      PROVE  Cardinality(msgs'[p]) <= MaxErrors
  <2>1. CASE p = o
    <3>1. msgs'[p] = msgs[o] \ {n}
      BY <2>1
    <3>2. /\ Cardinality(msgs[o]) \in Nat
          /\ Cardinality(msgs[o] \ {n}) \in Nat
          /\ Cardinality(msgs[o] \ {n}) <= Cardinality(msgs[o])
      BY MessageCount
    <3>3. Cardinality(msgs[o]) <= MaxErrors
      OBVIOUS
    <3>. QED BY <3>1, <3>2, <3>3, MaxErrorsAssumption
  <2>2. CASE p # o
    <3>1. msgs'[p] = msgs[p]
      BY <2>2
    <3>. QED BY <3>1
  <2>. QED BY <2>1, <2>2
<1>2. msgs' \in [Objects -> SUBSET (1..number)] /\ number' = number
  OBVIOUS
<1>3. wascmd' \in [Objects -> BOOLEAN] /\ errid' \in Ids
  BY BumpType
<1>. QED BY <1>1, <1>2, <1>3

(* Everything but an evaluation keeps the alarms type correct.             *)
LEMMA WorkType == ErrorsTypeOK /\ Work => ErrorsTypeOK'
<1>. SUFFICES ASSUME ErrorsTypeOK, Work PROVE ErrorsTypeOK'
  OBVIOUS
<1>. USE DEF ErrorsTypeOK, Room, Before, devvars, msgvars, critvars
<1>1. ASSUME NEW d \in Devices, DeviceChanges(d) PROVE ErrorsTypeOK'
  BY <1>1 DEF DeviceChanges
<1>2. ASSUME NEW d \in Devices, Accept(d) PROVE ErrorsTypeOK'
  <2>1. err' \in [Devices -> AlarmStates]
    BY <1>2 DEF Accept, AlarmStates
  <2>2. errid' \in Ids
    BY <1>2, BumpType DEF Accept
  <2>. QED BY <1>2, <2>1, <2>2 DEF Accept
<1>3. ASSUME NEW d \in Devices, NEW b \in BOOLEAN, SetSuppress(d, b)
      PROVE  ErrorsTypeOK'
  <2>1. errid' \in Ids
    BY <1>3, BumpType DEF SetSuppress
  <2>. QED BY <1>3, <2>1 DEF SetSuppress
<1>4. ASSUME NEW k \in CriticalErrors, SetGlobalError(k) \/ ResetGlobalError(k)
      PROVE  ErrorsTypeOK'
  <2>1. critid' \in Ids
    BY <1>4, BumpType DEF SetGlobalError, ResetGlobalError
  <2>2. crit' \subseteq CriticalErrors
    BY <1>4 DEF SetGlobalError, ResetGlobalError
  <2>. QED BY <1>4, <2>1, <2>2 DEF SetGlobalError, ResetGlobalError
<1>5. CASE ResetErrorsParams
  BY <1>5 DEF ResetErrorsParams
<1>6. CASE NextCycle
  BY <1>6 DEF NextCycle
<1>. QED
  BY <1>1, <1>2, <1>3, <1>4, <1>5, <1>6, SetErrMsgType, DeleteMessageType
     DEF Work

(* The evaluation keeps the alarms type correct.                           *)
LEMMA EvaluateType == ErrorsTypeOK /\ EvaluateAlarms => ErrorsTypeOK'
<1>. SUFFICES ASSUME ErrorsTypeOK, EvaluateAlarms PROVE ErrorsTypeOK'
  OBVIOUS
<1>. USE DEF ErrorsTypeOK, EvaluateAlarms, critvars
<1>1. err' \in [Devices -> AlarmStates]
  BY NextStateType DEF NextErr
<1>2. \A o \in Objects : Cardinality(msgs[o]) \in 0..MaxErrors
  <2>1. ASSUME NEW o \in Objects PROVE Cardinality(msgs[o]) \in Nat
    BY MessageCount
  <2>. QED BY <2>1, MaxErrorsAssumption
<1>3. prevsize' \in [Objects -> 0..MaxErrors]
  BY <1>2
<1>4. errid' \in Ids
  BY BumpType
<1>. QED BY <1>1, <1>3, <1>4

-----------------------------------------------------------------------------
(* Both modules take only steps of the alarms.                             *)
LEMMA ErrorsTypeStep ==
    ErrorsTypeOK /\ [Work \/ EvaluateAlarms]_errvars => ErrorsTypeOK'
<1>1. ErrorsTypeOK /\ UNCHANGED errvars => ErrorsTypeOK'
  BY DEF ErrorsTypeOK, errvars
<1>. QED BY <1>1, WorkType, EvaluateType

(* What the siren adds leaves the alarms alone.                            *)
LEMMA SirenStepIsErrorsStep ==
    [Next]_vars => [Work \/ EvaluateAlarms]_errvars
BY DEF Next, vars, errvars, EvaluateSiren, SetAutomatic, Before, devvars,
       msgvars, critvars

(* Type correctness of the alarms in every state of the controller: in     *)
(* particular tech_object::set_err_msg never lets the errors of an object  *)
(* grow beyond E_MAX_ERRORS_SIZE, whatever is given and deleted.           *)
THEOREM AlarmsTypeCorrect == Spec => []ErrorsTypeOK
<1>1. Init => ErrorsTypeOK
  BY ErrorsInitType DEF Init
<1>2. ErrorsTypeOK /\ [Next]_vars => ErrorsTypeOK'
  BY ErrorsTypeStep, SirenStepIsErrorsStep
<1>. QED BY <1>1, <1>2, PTL DEF Spec

-----------------------------------------------------------------------------
(* A device whose alarm state does not change keeps its place in the life  *)
(* cycle.                                                                  *)
LEMMA LifecycleStutters ==
    ASSUME UNCHANGED err
    PROVE  UNCHANGED <<[d \in Devices |-> InAlarm(d)],
                       [d \in Devices |-> err[d] \in {"NORMAL", "ACCEPT"}]>>
BY DEF InAlarm

(* A step that moves every device by one move of the life cycle, or not,   *)
(* is a step of the life cycle.                                            *)
LEMMA LifecycleMoves ==
    ASSUME err \in [Devices -> AlarmStates], err' \in [Devices -> AlarmStates],
           \A d \in Devices :
              \/ err'[d] = err[d]
              \/ err[d] \in {"NORMAL", "RETURN"} /\ err'[d] = "ALARM"
              \/ err[d] = "ALARM" /\ err'[d] = "RETURN"
              \/ err[d] = "ACCEPT" /\ err'[d] = "NORMAL"
              \/ err[d] = "ALARM" /\ err'[d] = "ACCEPT"
              \/ err[d] = "RETURN" /\ err'[d] = "NORMAL"
    PROVE  Lifecycle!Next
<1>. DEFINE active == [d \in Devices |-> InAlarm(d)]
            accepted == [d \in Devices |-> err[d] \in {"NORMAL", "ACCEPT"}]
<1>1. active' \in [Devices -> BOOLEAN] /\ accepted' \in [Devices -> BOOLEAN]
  BY DEF InAlarm
<1>2. ASSUME NEW d \in Devices
      PROVE  \/ Lifecycle!Unchanged(d) \/ Lifecycle!Raise(d)
             \/ Lifecycle!Clear(d) \/ Lifecycle!Accept(d)
  <2>0. /\ active[d] <=> err[d] \in {"ALARM", "ACCEPT"}
        /\ active'[d] <=> err'[d] \in {"ALARM", "ACCEPT"}
        /\ accepted[d] <=> err[d] \in {"NORMAL", "ACCEPT"}
        /\ accepted'[d] <=> err'[d] \in {"NORMAL", "ACCEPT"}
    BY Zenon DEF InAlarm
  <2>1. active[d] \in BOOLEAN /\ accepted[d] \in BOOLEAN
    BY DEF InAlarm
  <2>2. active'[d] \in BOOLEAN /\ accepted'[d] \in BOOLEAN
    BY <1>1
  <2>. HIDE DEF active, accepted
  <2>3. \/ active'[d] = active[d] /\ accepted'[d] = accepted[d]
        \/ ~ active[d] /\ active'[d] /\ ~ accepted'[d]
        \/ active[d] /\ ~ active'[d] /\ accepted'[d] = accepted[d]
        \/ ~ accepted[d] /\ accepted'[d] /\ active'[d] = active[d]
    <3>1. CASE err'[d] = err[d]
      BY <2>0, <2>1, <2>2, <3>1
    <3>2. CASE err[d] \in {"NORMAL", "RETURN"} /\ err'[d] = "ALARM"
      BY <2>0, <2>1, <2>2, <3>2
    <3>3. CASE \/ err[d] = "ALARM" /\ err'[d] = "RETURN"
               \/ err[d] = "ACCEPT" /\ err'[d] = "NORMAL"
      BY <2>0, <2>1, <2>2, <3>3
    <3>4. CASE \/ err[d] = "ALARM" /\ err'[d] = "ACCEPT"
               \/ err[d] = "RETURN" /\ err'[d] = "NORMAL"
      BY <2>0, <2>1, <2>2, <3>4
    <3>. QED BY <3>1, <3>2, <3>3, <3>4
  <2>. QED
    BY <2>3, Zenon
       DEF active, accepted, Lifecycle!Unchanged, Lifecycle!Raise,
           Lifecycle!Clear, Lifecycle!Accept
<1>. QED BY <1>1, <1>2 DEF Lifecycle!Next

(* Every step of the alarms is a step of the life cycle, or leaves it.     *)
LEMMA LifecycleStep ==
    ASSUME ErrorsTypeOK, ErrorsTypeOK', [Work \/ EvaluateAlarms]_errvars
    PROVE  \/ Lifecycle!Next
           \/ UNCHANGED <<[d \in Devices |-> InAlarm(d)],
                          [d \in Devices |-> err[d] \in {"NORMAL", "ACCEPT"}]>>
<1>1. CASE UNCHANGED err
  BY <1>1, LifecycleStutters
<1>2. ASSUME NEW d \in Devices, Accept(d) PROVE Lifecycle!Next
  <2>1. ASSUME NEW x \in Devices
        PROVE  \/ err'[x] = err[x]
               \/ err[x] = "ALARM" /\ err'[x] = "ACCEPT"
               \/ err[x] = "RETURN" /\ err'[x] = "NORMAL"
    BY <1>2 DEF Accept, ErrorsTypeOK
  <2>. QED BY <2>1, LifecycleMoves DEF ErrorsTypeOK
<1>3. CASE EvaluateAlarms
  <2>1. ASSUME NEW x \in Devices
        PROVE  \/ err'[x] = err[x]
               \/ err[x] \in {"NORMAL", "RETURN"} /\ err'[x] = "ALARM"
               \/ err[x] = "ALARM" /\ err'[x] = "RETURN"
               \/ err[x] = "ACCEPT" /\ err'[x] = "NORMAL"
    <3>1. err'[x] = NextState(err[x], failed[x])
      BY <1>3 DEF EvaluateAlarms, NextErr
    <3>2. err[x] \in AlarmStates /\ failed[x] \in BOOLEAN
      BY DEF ErrorsTypeOK
    <3>. QED BY <3>1, <3>2 DEF NextState, AlarmStates
  <2>. QED BY <2>1, LifecycleMoves DEF ErrorsTypeOK
<1>4. ASSUME Work, \A d \in Devices : ~ Accept(d) PROVE UNCHANGED err
  BY <1>4 DEF Work, DeviceChanges, SetSuppress, SetErrMsg, DeleteMessage,
              SetGlobalError, ResetGlobalError, ResetErrorsParams, NextCycle,
              devvars
<1>5. CASE UNCHANGED errvars
  BY <1>1, <1>5 DEF errvars
<1>. QED BY <1>1, <1>2, <1>3, <1>4, <1>5

(* The initial states of the alarms are those of the life cycle.           *)
LEMMA LifecycleInit == ErrorsInit => Lifecycle!Init
<1>. SUFFICES ASSUME ErrorsInit PROVE Lifecycle!Init
  OBVIOUS
<1>1. \A d \in Devices : err[d] = "NORMAL"
  BY DEF ErrorsInit, NoAlarms
<1>2. \A d \in Devices : InAlarm(d) = FALSE
  BY <1>1 DEF InAlarm
<1>3. \A d \in Devices : (err[d] \in {"NORMAL", "ACCEPT"}) = TRUE
  BY <1>1
<1>. QED BY <1>2, <1>3, Zenon DEF Lifecycle!Init

(* The alarms of the controller keep the promise of AlarmLifecycle,        *)
(* whatever fails, recovers, is accepted or suppressed in whatever order:  *)
(* an alarm is raised unaccepted and listed until it is over and accepted. *)
THEOREM AlarmsKeepLifecycle == Spec => KeepsAlarmLifecycle
<1>1. Init => Lifecycle!Init
  BY LifecycleInit DEF Init
<1>2. ErrorsTypeOK /\ ErrorsTypeOK' /\ [Next]_vars
      => [Lifecycle!Next]_<<[d \in Devices |-> InAlarm(d)],
                            [d \in Devices |-> err[d] \in {"NORMAL", "ACCEPT"}]>>
  BY LifecycleStep, SirenStepIsErrorsStep
<1>. QED
  BY <1>1, <1>2, AlarmsTypeCorrect, PTL
     DEF Spec, KeepsAlarmLifecycle, Lifecycle!Spec

-----------------------------------------------------------------------------
(***************************************************************************)
(* The red lamp and the siren follow the flags that the devices set one    *)
(* after the other, which takes an induction on the devices: sets of       *)
(* numbers have a least element.                                           *)
(***************************************************************************)
(* A set of numbers has a least element, unless it is empty.               *)
LEMMA LeastNumber ==
    ASSUME NEW T, T \subseteq Nat, T # {}
    PROVE  \E x \in T : \A y \in T : x <= y
<1>. DEFINE R == OpToRel(<, Nat)
<1>1. IsWellFoundedOn(R, Nat)
  BY NatLessThanWellFounded
<1>2. \A x, y \in Nat : x < y => <<x, y>> \in R
  BY DEF OpToRel
<1>. HIDE DEF R
<1>3. PICK x \in T : \A y \in T : ~ (<<y, x>> \in R)
  BY <1>1, WFMin
<1>4. ASSUME NEW y \in T PROVE x <= y
  <2>1. ~ (<<y, x>> \in R) /\ x \in Nat /\ y \in Nat
    BY <1>3
  <2>2. ~ (y < x)
    BY <1>2, <2>1
  <2>. QED BY <2>1, <2>2
<1>. QED BY <1>4

(* Induction: a set with 0, and with n + 1 if with n, has every number.    *)
LEMMA NumbersInduct ==
    ASSUME NEW S, 0 \in S, \A n \in Nat : n \in S => n + 1 \in S
    PROVE  Nat \subseteq S
<1>. SUFFICES ASSUME ~ (Nat \subseteq S) PROVE FALSE
  OBVIOUS
<1>1. PICK x \in Nat \ S : \A y \in Nat \ S : x <= y
  BY LeastNumber
<1>2. x # 0 /\ x - 1 \in Nat
  BY <1>1
<1>3. x - 1 \in S
  BY <1>1, <1>2
<1>. QED BY <1>1, <1>2, <1>3

(* The flags after every device are what evaluating that device makes of   *)
(* those before it.                                                        *)
LEMMA FlagsAfterEach ==
    \A d \in 0..NDev :
        FlagsAfter[d] = IF d = 0 THEN NoFlags ELSE WithDevice(FlagsAfter[d - 1], d)
<1>. DEFINE Body(f, n) == [d \in 0..n |-> IF d = 0 THEN NoFlags ELSE WithDevice(f[d - 1], d)]
            S == {n \in Nat : \E f : f = Body(f, n)}
<1>1. 0 \in S
  <2>. DEFINE f == [d \in 0..0 |-> NoFlags]
  <2>1. f = Body(f, 0)
    OBVIOUS
  <2>. QED BY <2>1
<1>2. ASSUME NEW n \in Nat, n \in S PROVE n + 1 \in S
  <2>1. PICK f : f = Body(f, n)
    BY <1>2
  <2>. DEFINE g == [d \in 0..(n + 1) |-> IF d = n + 1 THEN WithDevice(f[n], n + 1)
                                                       ELSE f[d]]
  <2>2. ASSUME NEW d \in 0..(n + 1)
        PROVE  g[d] = IF d = 0 THEN NoFlags ELSE WithDevice(g[d - 1], d)
    <3>1. CASE d = n + 1
      <4>1. g[d] = WithDevice(f[n], d) /\ d # 0 /\ d - 1 = n
        BY <3>1
      <4>2. g[n] = f[n]
        OBVIOUS
      <4>. QED BY <4>1, <4>2
    <3>2. CASE d # n + 1
      <4>1. d \in 0..n
        BY <3>2
      <4>2. f[d] = IF d = 0 THEN NoFlags ELSE WithDevice(f[d - 1], d)
        BY <2>1, <4>1
      <4>3. g[d] = f[d] /\ (d # 0 => g[d - 1] = f[d - 1])
        BY <3>2, <4>1
      <4>. QED BY <4>2, <4>3
    <3>. QED BY <3>1, <3>2
  <2>3. g = Body(g, n + 1)
    BY <2>2
  <2>. HIDE DEF g
  <2>4. \E h : h = Body(h, n + 1)
    BY <2>3
  <2>. QED BY <2>4
<1>. HIDE DEF S
<1>3. NDev \in S
  BY <1>1, <1>2, NumbersInduct, NDevAssumption
<1>4. \E f : f = Body(f, NDev)
  BY <1>3 DEF S
<1>5. FlagsAfter = Body(FlagsAfter, NDev)
  BY <1>4 DEF FlagsAfter
<1>. QED BY <1>5

(* The devices up to n that are taken for a reason: none after them, up to *)
(* n, has failed and is suppressed.                                        *)
Counts(d, n) == failed[d] /\ \A e \in d..n : failed[e] => ~ suppress[e]

FlagsSay(n) ==
    /\ FlagsAfter[n].any <=> \E d \in 1..n : Counts(d, n)
    /\ FlagsAfter[n].noack <=> \E d \in 1..n : Counts(d, n) /\ err[d] # "ACCEPT"
    /\ FlagsAfter[n].new <=>
           \E d \in 1..n : Counts(d, n) /\ err[d] \in {"NORMAL", "RETURN"}

(* One more device ends what the devices before it have set, or adds to it.*)
LEMMA OneMoreDevice ==
    ASSUME ErrorsTypeOK, NEW n \in Nat, n + 1 \in Devices, FlagsSay(n)
    PROVE  FlagsSay(n + 1)
<1>1. FlagsAfter[n + 1] = WithDevice(FlagsAfter[n], n + 1)
  <2>1. n + 1 \in 0..NDev /\ n + 1 # 0 /\ (n + 1) - 1 = n
    BY NDevAssumption DEF Devices
  <2>. QED BY <2>1, FlagsAfterEach
<1>2. ASSUME NEW d \in 1..(n + 1)
      PROVE  Counts(d, n + 1) <=>
                 IF d = n + 1 THEN failed[d] /\ ~ suppress[d]
                 ELSE Counts(d, n) /\ (failed[n + 1] => ~ suppress[n + 1])
  <2>1. CASE d = n + 1
    BY <2>1 DEF Counts
  <2>2. CASE d # n + 1
    <3>1. \A e : e \in d..(n + 1) <=> e \in d..n \/ e = n + 1
      BY <2>2
    <3>. QED BY <2>2, <3>1 DEF Counts
  <2>. QED BY <2>1, <2>2
<1>3. 1..(n + 1) = (1..n) \cup {n + 1} /\ \A d \in 1..n : d # n + 1
  OBVIOUS
<1>4. CASE ~ failed[n + 1]
  <2>1. \A d \in 1..n : Counts(d, n + 1) <=> Counts(d, n)
    BY <1>2, <1>3, <1>4
  <2>2. ~ Counts(n + 1, n + 1)
    BY <1>4 DEF Counts
  <2>3. FlagsAfter[n + 1] = FlagsAfter[n]
    BY <1>1, <1>4 DEF WithDevice
  <2>. QED BY <1>3, <2>1, <2>2, <2>3, Zenon DEF FlagsSay
<1>5. CASE failed[n + 1] /\ suppress[n + 1]
  <2>1. \A d \in 1..(n + 1) : ~ Counts(d, n + 1)
    BY <1>2, <1>5
  <2>2. FlagsAfter[n + 1] = NoFlags
    BY <1>1, <1>5 DEF WithDevice
  <2>. QED BY <2>1, <2>2 DEF FlagsSay, NoFlags
<1>6. CASE failed[n + 1] /\ ~ suppress[n + 1]
  <2>1. /\ \A d \in 1..n : Counts(d, n + 1) <=> Counts(d, n)
        /\ Counts(n + 1, n + 1)
    BY <1>2, <1>3, <1>6
  <2>2. /\ FlagsAfter[n + 1].any
        /\ FlagsAfter[n + 1].noack <=> FlagsAfter[n].noack \/ err[n + 1] # "ACCEPT"
        /\ FlagsAfter[n + 1].new <=>
              FlagsAfter[n].new \/ err[n + 1] \in {"NORMAL", "RETURN"}
    <3>. DEFINE noack == FlagsAfter[n].noack \/ err[n + 1] # "ACCEPT"
                new == FlagsAfter[n].new \/ err[n + 1] \in {"NORMAL", "RETURN"}
    <3>1. FlagsAfter[n + 1] = [any |-> TRUE, noack |-> noack, new |-> new]
      BY <1>1, <1>6 DEF WithDevice
    <3>2. /\ FlagsAfter[n + 1].any = TRUE
          /\ FlagsAfter[n + 1].noack = noack /\ FlagsAfter[n + 1].new = new
      <4>. HIDE DEF noack, new
      <4>. QED BY <3>1
    <3>. QED BY <3>2, Zenon
  <2>. QED BY <1>3, <2>1, <2>2, Zenon DEF FlagsSay
<1>. QED BY <1>4, <1>5, <1>6

(* What the flags say after all devices.                                   *)
LEMMA FlagsOfDevices == ErrorsTypeOK => FlagsSay(NDev)
<1>. SUFFICES ASSUME ErrorsTypeOK PROVE FlagsSay(NDev)
  OBVIOUS
<1>. DEFINE S == {n \in Nat : n <= NDev => FlagsSay(n)}
<1>1. 0 \in S
  <2>1. FlagsAfter[0] = NoFlags
    BY FlagsAfterEach, NDevAssumption
  <2>2. 1..0 = {}
    OBVIOUS
  <2>. QED BY <2>1, <2>2 DEF FlagsSay, NoFlags
<1>2. ASSUME NEW n \in Nat, n \in S PROVE n + 1 \in S
  <2>. SUFFICES ASSUME n + 1 <= NDev PROVE FlagsSay(n + 1)
    OBVIOUS
  <2>1. n + 1 \in Devices /\ n <= NDev
    BY NDevAssumption DEF Devices
  <2>. QED BY <1>2, <2>1, OneMoreDevice
<1>. HIDE DEF S
<1>3. NDev \in S
  BY <1>1, <1>2, NumbersInduct, NDevAssumption
<1>. QED BY <1>3, NDevAssumption DEF S

(* The evaluation makes alarms of the devices that have failed.            *)
LEMMA EvaluationAlarms ==
    ASSUME ErrorsTypeOK, EvaluateAlarms
    PROVE  /\ \A d \in Devices : /\ InAlarm(d)' <=> failed[d]
                                 /\ Unmasked(d)' <=> \A e \in d..NDev : failed[e] => ~ suppress[e]
                                 /\ err'[d] = "ALARM" <=> failed[d] /\ err[d] # "ACCEPT"
           /\ Flags.any <=> \E d \in Devices : InAlarm(d)' /\ Unmasked(d)'
           /\ Flags.noack <=> Unaccepted'
           /\ Flags.new <=> \E d \in Devices : /\ err[d] # "ALARM" /\ err'[d] = "ALARM"
                                               /\ Unmasked(d)'
<1>1. ASSUME NEW d \in Devices
      PROVE  /\ InAlarm(d)' <=> failed[d]
             /\ err'[d] = "ALARM" <=> failed[d] /\ err[d] # "ACCEPT"
  <2>1. err[d] \in AlarmStates /\ failed[d] \in BOOLEAN
    BY DEF ErrorsTypeOK
  <2>2. err'[d] = NextState(err[d], failed[d])
    BY DEF EvaluateAlarms, NextErr
  <2>3. err'[d] \in {"ALARM", "ACCEPT"} <=> failed[d]
    BY <2>1, <2>2 DEF NextState, AlarmStates
  <2>4. err'[d] = "ALARM" <=> failed[d] /\ err[d] # "ACCEPT"
    BY <2>1, <2>2 DEF NextState, AlarmStates
  <2>. QED BY <2>3, <2>4 DEF InAlarm
<1>2. ASSUME NEW d \in Devices
      PROVE  Unmasked(d)' <=> \A e \in d..NDev : failed[e] => ~ suppress[e]
  <2>1. \A e \in d..NDev : e \in Devices
    BY NDevAssumption DEF Devices
  <2>2. suppress' = suppress
    BY DEF EvaluateAlarms
  <2>. QED BY <1>1, <2>1, <2>2 DEF Unmasked
<1>3. FlagsSay(NDev)
  BY FlagsOfDevices
<1>4. \A d \in Devices : Counts(d, NDev) <=> InAlarm(d)' /\ Unmasked(d)'
  BY <1>1, <1>2 DEF Counts
<1>5. /\ Flags.any <=> \E d \in Devices : Counts(d, NDev)
      /\ Flags.noack <=> \E d \in Devices : Counts(d, NDev) /\ err[d] # "ACCEPT"
      /\ Flags.new <=>
            \E d \in Devices : Counts(d, NDev) /\ err[d] \in {"NORMAL", "RETURN"}
  BY <1>3, Zenon DEF FlagsSay, Flags, Devices
<1>6. Flags.any <=> \E d \in Devices : InAlarm(d)' /\ Unmasked(d)'
  BY <1>4, <1>5
<1>7. Flags.noack <=> Unaccepted'
  BY <1>1, <1>4, <1>5 DEF Unaccepted
<1>8. Flags.new <=> \E d \in Devices : /\ err[d] # "ALARM" /\ err'[d] = "ALARM"
                                       /\ Unmasked(d)'
  <2>1. \A d \in Devices : err[d] \in AlarmStates
    BY DEF ErrorsTypeOK
  <2>2. \A d \in Devices : (err[d] \in {"NORMAL", "RETURN"} /\ failed[d])
                              <=> (err[d] # "ALARM" /\ err'[d] = "ALARM")
    BY <1>1, <2>1 DEF AlarmStates
  <2>. QED BY <1>1, <1>4, <1>5, <2>2
<1>. QED BY <1>1, <1>2, <1>6, <1>7, <1>8

(* Only the evaluation of the siren evaluates the alarms.                  *)
LEMMA SirenEvaluates == [Next]_vars /\ EvaluateAlarms => EvaluateSiren
BY DEF Next, vars, EvaluateAlarms, Work, DeviceChanges, Accept, SetSuppress, SetErrMsg,
       DeleteMessage, SetGlobalError, ResetGlobalError, ResetErrorsParams,
       NextCycle, SetAutomatic, Room, Before

(* In automatic mode the red lamp is on for exactly the critical errors    *)
(* and the alarms that no suppressed device after them hides, for any      *)
(* number of devices (siren_lights_manager::eval).                         *)
THEOREM RedFollows == Spec => []RedFollowsAlarms
<1>1. Init => RedFollowsAlarms
  BY DEF Init, ErrorsInit, RedFollowsAlarms
<1>2. ASSUME ErrorsTypeOK, RedFollowsAlarms, [Next]_vars
      PROVE  RedFollowsAlarms'
  <2>1. CASE EvaluateSiren
    <3>. SUFFICES ASSUME automatic'
                  PROVE  siren'.red = (crit' # {} \/ \E d \in Devices :
                                                       InAlarm(d)' /\ Unmasked(d)')
      BY Zenon DEF RedFollowsAlarms
    <3>1. siren'.red = (crit # {} \/ Flags.any) /\ crit' = crit
      BY <2>1 DEF EvaluateSiren, EvaluateAlarms, SirenAfter, critvars
    <3>2. Flags.any <=> \E d \in Devices : InAlarm(d)' /\ Unmasked(d)'
      BY <1>2, <2>1, EvaluationAlarms DEF EvaluateSiren
    <3>. QED BY <3>1, <3>2
  <2>2. CASE Work \/ \E b \in BOOLEAN : SetAutomatic(b)
    <3>1. ~ evaluated'
      BY <2>2
         DEF Work, DeviceChanges, Accept, SetSuppress, SetErrMsg, DeleteMessage,
             SetGlobalError, ResetGlobalError, ResetErrorsParams, NextCycle,
             SetAutomatic, Room, Before
    <3>. QED BY <3>1 DEF RedFollowsAlarms
  <2>3. CASE UNCHANGED vars
    BY <1>2, <2>3 DEF vars, RedFollowsAlarms, InAlarm, Unmasked
  <2>. QED BY <1>2, <2>1, <2>2, <2>3 DEF Next
<1>. QED BY <1>1, <1>2, AlarmsTypeCorrect, PTL DEF Spec

(* The siren sounds with every new alarm that is not hidden, goes on as    *)
(* long as one waits to be accepted, and then is silent.                   *)
THEOREM SirenFollows == Spec => SirenFollowsAlarms
<1>1. ASSUME ErrorsTypeOK, [Next]_vars, automatic, EvaluateAlarms
      PROVE  /\ siren.sound /\ (crit # {} \/ Unaccepted') => siren'.sound
             /\ (\E d \in Devices : err[d] # "ALARM" /\ err'[d] = "ALARM"
                                    /\ Unmasked(d)') => siren'.sound
             /\ siren'.sound => crit # {} \/ Unaccepted'
  <2>1. siren'.sound <=> /\ siren.sound \/ critid # siren.critn \/ Flags.new
                         /\ crit # {} \/ Flags.noack
    <3>. DEFINE red == crit # {} \/ Flags.any
                sound == /\ siren.sound \/ critid # siren.critn \/ Flags.new
                         /\ crit # {} \/ Flags.noack
    <3>1. siren' = [red |-> red, sound |-> sound, critn |-> critid]
      BY <1>1, SirenEvaluates, Zenon DEF EvaluateSiren, SirenAfter
    <3>2. siren'.sound = sound
      <4>. HIDE DEF red, sound
      <4>. QED BY <3>1
    <3>. QED BY <3>2, Zenon
  <2>2. /\ Flags.noack <=> Unaccepted'
        /\ Flags.new <=> \E d \in Devices : /\ err[d] # "ALARM" /\ err'[d] = "ALARM"
                                            /\ Unmasked(d)'
    BY <1>1, EvaluationAlarms
  <2>3. (\E d \in Devices : err[d] # "ALARM" /\ err'[d] = "ALARM" /\ Unmasked(d)')
           => Unaccepted'
    BY DEF Unaccepted
  <2>. QED BY <2>1, <2>2, <2>3
<1>. QED
  BY <1>1, AlarmsTypeCorrect, PTL DEF Spec, SirenFollowsAlarms

-----------------------------------------------------------------------------
(***************************************************************************)
(* The lists that clients show.                                            *)
(*                                                                         *)
(* As long as no number comes round again, a client whose number is that   *)
(* of the answers shows the list of the last version answered (Kept).      *)
(* What needs care is the time between a change and its new version: a     *)
(* message that is new, and an alarm that is to change, get theirs only    *)
(* with the evaluation, after clients have polled.                         *)
(***************************************************************************)
Shown == [crit: SUBSET CriticalErrors, err: [Devices -> AlarmStates],
          msgs: [Objects -> SUBSET Nat]]

ListTypeOK ==
    /\ answers \in [id: Ids, prevcrit: Ids, preverr: Ids,
                    delay: {"none", "running", "over"}]
    /\ client \in [Clients -> [seen: Ids \cup {-1}, shown: Shown]]

(* The next evaluation has nothing to do.                                  *)
Quiet == NextErr = err /\ ~ MessagesChanged

(* The bounds stop everything that could give the alarms a new version but *)
(* one evaluation.                                                         *)
Bounded ==
    /\ errid <= MaxId + 1 /\ critid <= MaxCritId
    /\ errid = MaxId + 1 => Quiet

Settled == evaluated => Quiet

(* No version, no alarms.                                                  *)
Untold ==
    errid = 0 => err = NoAlarms /\ \A o \in Objects : prevsize[o] = 0 /\ ~ wascmd[o]

(* The evaluation counts messages that were only added.                    *)
Counting == \A o \in Objects : wascmd[o] \/ prevsize[o] <= Cardinality(msgs[o])

(* What was answered is no newer than what there is, and the number of the *)
(* answers counts the versions at most.                                    *)
Numbered ==
    /\ answers.prevcrit <= critid /\ answers.preverr <= errid
    /\ answers.id <= answers.prevcrit + answers.preverr
    /\ \A c \in Clients : client[c].seen <= answers.id

(* The alarms are not given before the delay is over, and not with         *)
(* critical errors.                                                        *)
Withheld ==
    /\ answers.delay # "over" => answers.preverr = 0
    /\ \A c \in Clients :
          answers.delay # "over" \/ client[c].shown.crit # {} =>
              client[c].shown.err = NoAlarms /\ client[c].shown.msgs = NoMessages

(* A list that was given with the present versions: only messages may have *)
(* been added, and the next evaluation will count them.                    *)
Kept(c) ==
    client[c].seen = answers.id /\ critid = answers.prevcrit =>
        /\ client[c].shown.crit = crit
        /\ crit = {} /\ errid = answers.preverr =>
              /\ client[c].shown.err = err
              /\ \A o \in Objects :
                    /\ client[c].shown.msgs[o] \subseteq msgs[o]
                    /\ wascmd[o] \/ prevsize[o] <= Cardinality(client[c].shown.msgs[o])

ListInv ==
    /\ ErrorsTypeOK /\ ListTypeOK
    /\ Bounded /\ Settled /\ Untold /\ Counting /\ Numbered /\ Withheld
    /\ \A c \in Clients : Kept(c)

(* A version is a number, and the next one is the next number, unless it   *)
(* is the last.                                                            *)
LEMMA Versions ==
    /\ \A i \in Ids : i \in Nat /\ i < 65536
    /\ \A i \in Nat : i < 65535 => Bump(i) = i + 1
    /\ MaxId \in Nat /\ MaxCritId \in Nat /\ MaxId + 1 + MaxCritId < 65536
<1>1. 2^16 = 65536
  BY SMT
<1>2. \A i \in Ids : i \in Nat /\ i < 65536
  BY <1>1 DEF Ids
<1>3. \A i \in Nat : i < 65535 => Bump(i) = i + 1
  BY <1>1 DEF Bump
<1>4. MaxId \in Nat /\ MaxCritId \in Nat /\ MaxId + 1 + MaxCritId < 65536
  BY <1>1, MaxIdAssumption, VersionsAssumption
<1>. QED BY <1>2, <1>3, <1>4

(* An alarm that has been evaluated stays as it is while its device does.  *)
LEMMA NextStateIdempotent ==
    ASSUME NEW e \in AlarmStates, NEW bad \in BOOLEAN
    PROVE  NextState(NextState(e, bad), bad) = NextState(e, bad)
<1>1. \A s \in AlarmStates :
         NextState(s, bad) = s <=> s \in (IF bad THEN {"ALARM", "ACCEPT"}
                                               ELSE {"NORMAL", "RETURN"})
  BY DEF NextState, AlarmStates
<1>2. NextState(e, bad) \in (IF bad THEN {"ALARM", "ACCEPT"} ELSE {"NORMAL", "RETURN"})
  BY DEF NextState, AlarmStates
<1>. QED BY <1>1, <1>2, NextStateType

(* A step of the alarms that gives them no new version changes none of     *)
(* them, and adds messages at most.                                        *)
Versioned ==
    /\ errid <= errid' /\ critid <= critid'
    /\ critid' = critid => crit' = crit
    /\ errid' = errid =>
          /\ err' = err
          /\ \A o \in Objects : /\ msgs[o] \subseteq msgs'[o]
                                /\ wascmd'[o] = wascmd[o]
                                /\ prevsize'[o] = prevsize[o]

(* What may happen before the evaluation keeps to the bounds, or leaves    *)
(* all that the evaluation looks at.                                       *)
LEMMA WorkVersioned ==
    ASSUME ErrorsTypeOK, Bounded, Work
    PROVE  /\ Versioned /\ ~ evaluated'
           /\ critid' <= MaxCritId
           /\ errid' <= MaxId \/ UNCHANGED <<errid, failed, err, msgs, prevsize, wascmd>>
<1>. DEFINE Goal == /\ Versioned /\ ~ evaluated'
                    /\ critid' <= MaxCritId
                    /\ \/ errid' <= MaxId
                       \/ UNCHANGED <<errid, failed, err, msgs, prevsize, wascmd>>
<1>0. /\ errid \in Nat /\ critid \in Nat /\ evaluated \in BOOLEAN
      /\ MaxId \in Nat /\ MaxCritId \in Nat /\ critid <= MaxCritId
      /\ errid < MaxId => Bump(errid) = errid + 1
      /\ critid < MaxCritId => Bump(critid) = critid + 1
  BY Versions DEF ErrorsTypeOK, Bounded
<1>. USE <1>0 DEF Room, Before, devvars, msgvars, critvars
<1>1. ASSUME NEW d \in Devices, DeviceChanges(d) PROVE Goal
  BY <1>1 DEF DeviceChanges, Versioned
<1>2. ASSUME NEW d \in Devices, Accept(d) PROVE Goal
  <2>1. errid' = errid + 1
    BY <1>2 DEF Accept
  <2>. QED BY <1>2, <2>1 DEF Accept, Versioned
<1>3. ASSUME NEW d \in Devices, NEW b \in BOOLEAN, SetSuppress(d, b) PROVE Goal
  <2>1. errid' = errid + 1
    BY <1>3 DEF SetSuppress
  <2>. QED BY <1>3, <2>1 DEF SetSuppress, Versioned
<1>4. ASSUME NEW o \in Objects, SetErrMsg(o) PROVE Goal
  <2>1. \A p \in Objects : msgs[p] \subseteq msgs'[p]
    BY <1>4 DEF SetErrMsg, ErrorsTypeOK
  <2>. QED BY <1>4, <2>1 DEF SetErrMsg, Versioned
<1>5. ASSUME NEW o \in Objects, NEW n, DeleteMessage(o, n) PROVE Goal
  <2>1. errid' = errid + 1
    BY <1>5 DEF DeleteMessage
  <2>2. ~ evaluated' /\ critid' = critid /\ crit' = crit /\ errid < MaxId
    BY <1>5 DEF DeleteMessage
  <2>. QED BY <2>1, <2>2 DEF Versioned
<1>6. ASSUME NEW k \in CriticalErrors, SetGlobalError(k) \/ ResetGlobalError(k)
      PROVE  Goal
  <2>1. critid' = critid + 1
    BY <1>6 DEF SetGlobalError, ResetGlobalError
  <2>. QED BY <1>6, <2>1 DEF SetGlobalError, ResetGlobalError, Versioned
<1>7. CASE ResetErrorsParams
  BY <1>7 DEF ResetErrorsParams, Versioned
<1>8. CASE NextCycle
  BY <1>8 DEF NextCycle, Versioned
<1>. QED
  BY <1>1, <1>2, <1>3, <1>4, <1>5, <1>6, <1>7, <1>8 DEF Work

(* The evaluation gives a new version for whatever it changes, and leaves  *)
(* nothing to do.                                                          *)
LEMMA EvaluationVersioned ==
    ASSUME ErrorsTypeOK, Bounded, EvaluateAlarms
    PROVE  Versioned /\ Bounded' /\ Quiet'
<1>0. errid \in Nat /\ critid \in Nat
  BY Versions DEF ErrorsTypeOK
<1>1. errid <= MaxId \/ (errid = MaxId + 1 /\ Quiet)
  BY <1>0, Versions DEF Bounded
<1>2. \/ errid' = errid + 1 /\ errid' <= MaxId + 1
      \/ Quiet /\ errid' = errid
  BY <1>0, <1>1, Versions DEF EvaluateAlarms, Quiet
<1>3. UNCHANGED <<failed, msgs, crit, critid>> /\ err' = NextErr
  BY DEF EvaluateAlarms, critvars
<1>4. Quiet'
  <2>1. ASSUME NEW d \in Devices
        PROVE  NextState(err'[d], failed'[d]) = err'[d]
    <3>1. err[d] \in AlarmStates /\ failed[d] \in BOOLEAN
      BY DEF ErrorsTypeOK
    <3>2. err'[d] = NextState(err[d], failed[d])
      BY <1>3 DEF NextErr
    <3>. QED BY <1>3, <3>1, <3>2, NextStateIdempotent
  <2>2. (NextErr = err)'
    <3>1. err' = [d \in Devices |-> err'[d]]
      BY <1>3 DEF NextErr
    <3>. QED BY <2>1, <3>1 DEF NextErr
  <2>3. ~ MessagesChanged'
    BY DEF EvaluateAlarms, MessagesChanged
  <2>. QED BY <2>2, <2>3 DEF Quiet
<1>5. Versioned
  <2>1. CASE Quiet
    <3>1. err' = err
      BY <1>3, <2>1 DEF Quiet
    <3>2. \A o \in Objects : wascmd'[o] = wascmd[o] /\ prevsize'[o] = prevsize[o]
      BY <2>1 DEF Quiet, MessagesChanged, EvaluateAlarms, ErrorsTypeOK
    <3>. QED BY <1>0, <1>2, <1>3, <3>1, <3>2 DEF Versioned
  <2>2. CASE ~ Quiet
    BY <1>0, <1>2, <1>3, <2>2 DEF Versioned
  <2>. QED BY <2>1, <2>2
<1>. QED BY <1>0, <1>2, <1>3, <1>4, <1>5, Versions DEF Bounded

(* Only a deletion, which is noted, leaves fewer messages than counted.    *)
LEMMA StepsCount ==
    ASSUME ErrorsTypeOK, Counting, Work \/ EvaluateAlarms
    PROVE  Counting'
<1>1. ASSUME NEW o \in Objects, SetErrMsg(o) PROVE Counting'
  <2>1. ASSUME NEW p \in Objects, Cardinality(msgs[p]) \in Nat
        PROVE  Cardinality(msgs[p]) <= Cardinality(msgs'[p])
    <3>1. CASE msgs'[p] = msgs[p]
      BY <2>1, <3>1
    <3>2. CASE msgs'[p] # msgs[p]
      <4>1. msgs'[p] = msgs[p] \cup {number + 1} /\ number + 1 \notin msgs[p]
        BY <1>1, <3>2 DEF SetErrMsg, ErrorsTypeOK
      <4>2. IsFiniteSet(msgs[p])
        BY MessageCount DEF ErrorsTypeOK
      <4>3. Cardinality(msgs'[p]) = Cardinality(msgs[p]) + 1
        BY <4>1, <4>2, FS_AddElement
      <4>. QED BY <2>1, <4>3
    <3>. QED BY <3>1, <3>2
  <2>2. ASSUME NEW p \in Objects
        PROVE  wascmd'[p] \/ prevsize'[p] <= Cardinality(msgs'[p])
    <3>1. wascmd' = wascmd /\ prevsize' = prevsize
      BY <1>1 DEF SetErrMsg
    <3>2. /\ IsFiniteSet(msgs[p]) /\ IsFiniteSet(msgs'[p])
          /\ Cardinality(msgs[p]) \in Nat /\ Cardinality(msgs'[p]) \in Nat
      BY <1>1, MessageCount, SetErrMsgType DEF ErrorsTypeOK
    <3>3. prevsize[p] \in Nat
      BY MaxErrorsAssumption DEF ErrorsTypeOK
    <3>. QED BY <2>1, <3>1, <3>2, <3>3 DEF Counting
  <2>. QED BY <2>2 DEF Counting
<1>2. ASSUME NEW o \in Objects, NEW n, DeleteMessage(o, n) PROVE Counting'
  <2>1. prevsize' = prevsize /\ wascmd'[o]
    BY <1>2 DEF DeleteMessage, ErrorsTypeOK
  <2>2. \A p \in Objects \ {o} : msgs'[p] = msgs[p] /\ wascmd'[p] = wascmd[p]
    BY <1>2 DEF DeleteMessage, ErrorsTypeOK
  <2>. QED BY <2>1, <2>2 DEF Counting
<1>3. CASE EvaluateAlarms
  <2>1. ASSUME NEW o \in Objects PROVE prevsize'[o] <= Cardinality(msgs'[o])
    <3>1. prevsize'[o] = Cardinality(msgs'[o])
      BY <1>3 DEF EvaluateAlarms
    <3>2. Cardinality(msgs'[o]) \in Nat
      BY <1>3, MessageCount, EvaluateType DEF ErrorsTypeOK
    <3>. QED BY <3>1, <3>2
  <2>. QED BY <2>1 DEF Counting
<1>4. CASE UNCHANGED <<msgs, prevsize, wascmd>>
  BY <1>4 DEF Counting
<1>. QED
  BY <1>1, <1>2, <1>3, <1>4
     DEF Work, DeviceChanges, Accept, SetSuppress, SetGlobalError,
         ResetGlobalError, ResetErrorsParams, NextCycle, msgvars

(* A step of the alarms hides nothing behind an old number.                *)
LEMMA ErrorsStepKeeps ==
    ASSUME ListInv, NEW A, ErrorsStep(A), Versioned, ErrorsTypeOK', Bounded',
           Settled', Counting'
    PROVE  ListInv'
<1>0. UNCHANGED <<answers, client>>
  BY DEF ErrorsStep
<1>1. /\ errid \in Nat /\ errid' \in Nat
      /\ critid \in Nat /\ critid' \in Nat
      /\ answers.prevcrit \in Nat /\ answers.preverr \in Nat
  BY Versions DEF ListInv, ErrorsTypeOK, ListTypeOK
<1>2. ListTypeOK' /\ Withheld'
  BY <1>0 DEF ListInv, ListTypeOK, Withheld
<1>3. Untold'
  BY <1>1 DEF ListInv, Untold, Versioned
<1>4. Numbered'
  <2>1. answers.prevcrit <= critid' /\ answers.preverr <= errid'
    BY <1>1 DEF ListInv, Numbered, Versioned
  <2>. QED BY <1>0, <2>1 DEF ListInv, Numbered
<1>5. ASSUME NEW c \in Clients PROVE Kept(c)'
  <2>. SUFFICES ASSUME client[c].seen = answers.id, critid' = answers.prevcrit
                PROVE  Kept(c)'
    BY <1>0 DEF Kept
  <2>1. critid = answers.prevcrit /\ crit' = crit
    BY <1>1 DEF ListInv, Numbered, Versioned
  <2>2. client[c].shown.crit = crit'
    BY <2>1 DEF ListInv, Kept
  <2>3. ASSUME crit' = {}, errid' = answers.preverr
        PROVE  /\ client[c].shown.err = err'
               /\ \A o \in Objects :
                     /\ client[c].shown.msgs[o] \subseteq msgs'[o]
                     /\ \/ wascmd'[o]
                        \/ prevsize'[o] <= Cardinality(client[c].shown.msgs[o])
    <3>1. errid = answers.preverr /\ errid' = errid
      BY <1>1, <2>3 DEF ListInv, Numbered, Versioned
    <3>2. /\ client[c].shown.err = err
          /\ \A o \in Objects :
                /\ client[c].shown.msgs[o] \subseteq msgs[o]
                /\ \/ wascmd[o]
                   \/ prevsize[o] <= Cardinality(client[c].shown.msgs[o])
      BY <2>1, <2>3, <3>1 DEF ListInv, Kept
    <3>3. /\ err' = err
          /\ \A o \in Objects : /\ msgs[o] \subseteq msgs'[o]
                                /\ wascmd'[o] = wascmd[o]
                                /\ prevsize'[o] = prevsize[o]
      BY <3>1 DEF Versioned
    <3>. QED BY <3>2, <3>3
  <2>. QED BY <1>0, <2>2, <2>3 DEF Kept
<1>. QED BY <1>2, <1>3, <1>4, <1>5 DEF ListInv

(* An answer has a new number for every version that is new in it, and the *)
(* numbers do not run round.                                               *)
LEMMA AnswerNumbers ==
    ASSUME ListInv
    PROVE  /\ Answered.id \in Ids /\ answers.id <= Answered.id
           /\ Answered.id <= Answered.prevcrit + Answered.preverr
           /\ Answered.prevcrit = critid
           /\ Answered.preverr = IF Full THEN errid ELSE answers.preverr
           /\ Answered.delay \in {"none", "running", "over"}
           /\ Answered.delay = "over" <=> answers.delay = "over"
           /\ Answered.id = answers.id =>
                 critid = answers.prevcrit /\ (Full => errid = answers.preverr)
           /\ Answered \in [id: Ids, prevcrit: Ids, preverr: Ids,
                             delay: {"none", "running", "over"}]
<1>. DEFINE c == critid # answers.prevcrit
            e == Full /\ errid # answers.preverr
            id == IF c THEN Bump(answers.id) ELSE answers.id
            last == IF e THEN Bump(id) ELSE id
            preverr == IF Full THEN errid ELSE answers.preverr
            delay == IF answers.delay = "none" THEN "running" ELSE answers.delay
<1>1. Answered = [id |-> last, prevcrit |-> critid, preverr |-> preverr, delay |-> delay]
  BY Zenon DEF Answered
<1>2. /\ errid \in Ids /\ critid \in Ids /\ answers.id \in Ids
      /\ answers.prevcrit \in Ids /\ answers.preverr \in Ids
      /\ answers.delay \in {"none", "running", "over"}
  BY DEF ListInv, ErrorsTypeOK, ListTypeOK
<1>3. /\ answers.prevcrit <= critid /\ answers.preverr <= errid
      /\ answers.id <= answers.prevcrit + answers.preverr
      /\ errid <= MaxId + 1 /\ critid <= MaxCritId
  BY DEF ListInv, Numbered, Bounded
<1>4. /\ errid \in Nat /\ critid \in Nat /\ answers.id \in Nat
      /\ answers.prevcrit \in Nat /\ answers.preverr \in Nat
      /\ MaxId \in Nat /\ MaxCritId \in Nat /\ MaxId + 1 + MaxCritId < 65536
  BY <1>2, Versions
<1>5. /\ id = IF c THEN answers.id + 1 ELSE answers.id
      /\ id <= critid + answers.preverr
      /\ id \in Nat /\ answers.id <= id
  <2>1. CASE c
    <3>1. answers.id + 1 <= critid + answers.preverr
      BY <1>3, <1>4, <2>1
    <3>2. Bump(answers.id) = answers.id + 1
      BY <1>3, <1>4, <3>1, Versions
    <3>. QED BY <1>4, <2>1, <3>1, <3>2
  <2>2. CASE ~ c
    BY <1>3, <1>4, <2>2
  <2>. QED BY <2>1, <2>2
<1>6. /\ last = IF e THEN id + 1 ELSE id
      /\ last <= critid + preverr
      /\ last \in Nat /\ id <= last
  <2>1. CASE e
    <3>1. id + 1 <= critid + errid
      BY <1>3, <1>4, <1>5, <2>1
    <3>2. Bump(id) = id + 1
      BY <1>3, <1>4, <1>5, <3>1, Versions
    <3>. QED BY <1>4, <1>5, <2>1, <3>1, <3>2
  <2>2. CASE ~ e
    <3>1. preverr = answers.preverr
      BY <2>2
    <3>. QED BY <1>5, <2>2, <3>1
  <2>. QED BY <2>1, <2>2
<1>7. last \in Ids
  <2>1. last < 65536
    BY <1>3, <1>4, <1>6
  <2>2. 2^16 = 65536
    BY SMT
  <2>. QED BY <1>6, <2>1, <2>2 DEF Ids
<1>8. preverr \in Ids /\ delay \in {"none", "running", "over"}
      /\ (delay = "over" <=> answers.delay = "over")
  BY <1>2
<1>9. last = answers.id => ~ c /\ ~ e
  BY <1>4, <1>5, <1>6
<1>10. answers.id <= last
  BY <1>4, <1>5, <1>6
<1>. HIDE DEF last, id
<1>. QED BY <1>1, <1>2, <1>6, <1>7, <1>8, <1>9, <1>10

(* An answer leaves every client with what it was told, or tells it the    *)
(* list as it is.                                                          *)
LEMMA AnswerKeeps ==
    ASSUME ListInv, answers' = Answered, UNCHANGED errvars,
           client' \in [Clients -> [seen: Ids \cup {-1}, shown: Shown]],
           \A c \in Clients : \/ client'[c] = client[c]
                             \/ client'[c] = [seen |-> Answered.id, shown |-> Listing]
    PROVE  ListInv'
<1>1. /\ ErrorsTypeOK' /\ Bounded' /\ Settled' /\ Untold' /\ Counting'
      /\ Full' = Full
  BY AnswerNumbers
     DEF ListInv, errvars, ErrorsTypeOK, Bounded, Settled, Untold, Counting, Quiet,
         NextErr, MessagesChanged, Full
<1>2. ListTypeOK'
  BY AnswerNumbers DEF ListTypeOK
<1>3. /\ answers.id \in Nat /\ Answered.id \in Nat /\ errid \in Nat
      /\ answers.preverr \in Nat
      /\ \A c \in Clients : client[c].seen \in Int
  BY AnswerNumbers, Versions DEF ListInv, ListTypeOK, ErrorsTypeOK
<1>4. Numbered'
  <2>1. answers'.prevcrit <= critid' /\ answers'.preverr <= errid'
    BY AnswerNumbers, <1>3, Versions DEF ListInv, Numbered, errvars, ErrorsTypeOK
  <2>2. \A c \in Clients : client'[c].seen <= answers'.id
    BY AnswerNumbers, <1>3 DEF ListInv, Numbered
  <2>. QED BY AnswerNumbers, <2>1, <2>2 DEF Numbered
<1>5. Withheld'
  <2>1. answers'.delay # "over" => answers'.preverr = 0
    BY AnswerNumbers DEF ListInv, Withheld, Full
  <2>2. ASSUME NEW c \in Clients,
               answers'.delay # "over" \/ client'[c].shown.crit # {}
        PROVE  client'[c].shown.err = NoAlarms /\ client'[c].shown.msgs = NoMessages
    <3>1. CASE client'[c] = client[c]
      BY <2>2, <3>1, AnswerNumbers DEF ListInv, Withheld
    <3>2. CASE client'[c] = [seen |-> Answered.id, shown |-> Listing]
      BY <2>2, <3>2, AnswerNumbers DEF Listing, Full
    <3>. QED BY <3>1, <3>2
  <2>. QED BY <2>1, <2>2 DEF Withheld
<1>6. ASSUME NEW c \in Clients PROVE Kept(c)'
  <2>. SUFFICES ASSUME client'[c].seen = Answered.id
                PROVE  /\ client'[c].shown.crit = crit
                       /\ crit = {} /\ errid = Answered.preverr =>
                             /\ client'[c].shown.err = err
                             /\ \A o \in Objects :
                                   /\ client'[c].shown.msgs[o] \subseteq msgs[o]
                                   /\ \/ wascmd[o]
                                      \/ prevsize[o] <= Cardinality(client'[c].shown.msgs[o])
    BY DEF Kept, errvars
  <2>1. CASE client'[c] = client[c]
    <3>1. Answered.id = answers.id
      BY <1>3, <2>1, AnswerNumbers DEF ListInv, Numbered
    <3>2. critid = answers.prevcrit /\ answers.preverr = Answered.preverr
      BY <3>1, AnswerNumbers
    <3>. QED BY <2>1, <3>1, <3>2 DEF ListInv, Kept
  <2>2. CASE client'[c] = [seen |-> Answered.id, shown |-> Listing]
    <3>1. CASE Full
      BY <2>2, <3>1 DEF Listing, ListInv, Counting
    <3>2. CASE ~ Full
      <4>1. ASSUME crit = {}, errid = Answered.preverr
            PROVE  /\ err = NoAlarms
                   /\ \A o \in Objects : prevsize[o] <= Cardinality({})
        <5>1. errid = 0
          BY <3>2, <4>1, AnswerNumbers DEF Full, ListInv, Withheld
        <5>. QED BY <5>1, FS_EmptySet DEF ListInv, Untold
      <4>2. /\ client'[c].shown.crit = crit /\ client'[c].shown.err = NoAlarms
            /\ client'[c].shown.msgs = NoMessages
        BY <2>2, <3>2 DEF Listing
      <4>3. \A o \in Objects : NoMessages[o] = {}
        BY DEF NoMessages
      <4>. QED BY <4>1, <4>2, <4>3
    <3>. QED BY <3>1, <3>2
  <2>. QED BY <2>1, <2>2
<1>. QED BY <1>1, <1>2, <1>4, <1>5, <1>6 DEF ListInv

(* The list is one a client can show.                                      *)
LEMMA ListingType == ErrorsTypeOK => Listing \in Shown
BY DEF ErrorsTypeOK, Listing, Shown, NoAlarms, NoMessages, AlarmStates

(* A poll changes what its client was told at most.                        *)
LEMMA PollKeeps ==
    ASSUME ListInv, NEW c \in Clients, Poll(c)
    PROVE  ListInv'
<1>1. UNCHANGED errvars /\ answers' = Answered
  BY DEF Poll, Before, errvars, devvars, msgvars, critvars
<1>2. /\ client' \in [Clients -> [seen: Ids \cup {-1}, shown: Shown]]
      /\ \A d \in Clients : \/ client'[d] = client[d]
                           \/ client'[d] = [seen |-> Answered.id, shown |-> Listing]
  BY AnswerNumbers, ListingType, Zenon DEF Poll, ListInv, ListTypeOK
<1>. QED BY <1>1, <1>2, AnswerKeeps

(* The end of the delay gives nothing yet.                                 *)
LEMMA DelayOverKeeps ==
    ASSUME ListInv, DelayOver
    PROVE  ListInv'
<1>1. UNCHANGED errvars /\ client' = client
  BY DEF DelayOver, Before, errvars, devvars, msgvars, critvars
<1>2. /\ answers'.id = answers.id /\ answers'.prevcrit = answers.prevcrit
      /\ answers'.preverr = answers.preverr /\ answers'.delay = "over"
  BY DEF DelayOver, ListInv, ListTypeOK
<1>3. ListTypeOK'
  BY <1>1 DEF DelayOver, ListInv, ListTypeOK
<1>4. ErrorsTypeOK' /\ Bounded' /\ Settled' /\ Untold' /\ Counting'
  BY <1>1
     DEF ListInv, errvars, ErrorsTypeOK, Bounded, Settled, Untold, Counting, Quiet,
         NextErr, MessagesChanged
<1>5. Numbered' /\ Withheld' /\ \A c \in Clients : Kept(c)'
  BY <1>1, <1>2 DEF ListInv, Numbered, Withheld, Kept, errvars
<1>. QED BY <1>3, <1>4, <1>5 DEF ListInv

(* The invariant is inductive.                                             *)
LEMMA ListInvInductive == ListInv /\ [ListNext]_listvars => ListInv'
<1>. SUFFICES ASSUME ListInv, [ListNext]_listvars PROVE ListInv'
  OBVIOUS
<1>1. CASE ErrorsStep(Work)
  <2>1. Work /\ ErrorsTypeOK /\ Bounded /\ Counting
    BY <1>1 DEF ErrorsStep, ListInv
  <2>2. ErrorsTypeOK' /\ Counting' /\ Versioned
    BY <2>1, WorkType, StepsCount, WorkVersioned
  <2>3. Settled'
    BY <2>1, WorkVersioned DEF Settled
  <2>4. Bounded'
    <3>1. CASE errid' <= MaxId
      <4>1. errid' # MaxId + 1 /\ errid' <= MaxId + 1
        BY <2>2, <3>1, Versions DEF ErrorsTypeOK
      <4>. QED BY <2>1, <4>1, WorkVersioned DEF Bounded
    <3>2. CASE UNCHANGED <<errid, failed, err, msgs, prevsize, wascmd>>
      BY <2>1, <3>2, WorkVersioned DEF Bounded, Quiet, NextErr, MessagesChanged
    <3>. QED BY <2>1, <3>1, <3>2, WorkVersioned
  <2>. QED BY <1>1, <2>2, <2>3, <2>4, ErrorsStepKeeps
<1>2. CASE ErrorsStep(EvaluateAlarms)
  <2>1. EvaluateAlarms /\ ErrorsTypeOK /\ Bounded /\ Counting
    BY <1>2 DEF ErrorsStep, ListInv
  <2>2. ErrorsTypeOK' /\ Counting' /\ Versioned /\ Bounded' /\ Settled'
    BY <2>1, EvaluateType, StepsCount, EvaluationVersioned DEF Settled
  <2>. QED BY <1>2, <2>2, ErrorsStepKeeps
<1>3. CASE \E c \in Clients : Poll(c)
  BY <1>3, PollKeeps
<1>4. CASE OtherPoll
  <2>1. UNCHANGED errvars /\ answers' = Answered /\ client' = client
    BY <1>4 DEF OtherPoll, Before, errvars, devvars, msgvars, critvars
  <2>. QED BY <2>1, AnswerKeeps DEF ListInv, ListTypeOK
<1>5. CASE DelayOver
  BY <1>5, DelayOverKeeps
<1>6. CASE UNCHANGED listvars
  <2>1. UNCHANGED <<failed, err, suppress, number, msgs, prevsize, wascmd, errid,
                    crit, critid, evaluated, answers, client>>
    BY <1>6 DEF listvars
  <2>. QED BY <2>1
     DEF ListInv, ErrorsTypeOK, ListTypeOK, Bounded, Settled, Untold, Counting,
         Quiet, NextErr, MessagesChanged, Numbered, Withheld, Kept
<1>. QED BY <1>1, <1>2, <1>3, <1>4, <1>5, <1>6 DEF ListNext

(* The invariant holds at the start.                                       *)
LEMMA ListInitInv == ListInit => ListInv
<1>. SUFFICES ASSUME ListInit PROVE ListInv
  OBVIOUS
<1>1. ErrorsTypeOK /\ ErrorsInit
  BY ErrorsInitType DEF ListInit
<1>2. 0 \in Ids
  BY SMT DEF Ids
<1>3. ListTypeOK
  BY <1>2 DEF ListInit, ListTypeOK, Shown, NoAlarms, NoMessages, AlarmStates
<1>4. Bounded /\ Settled /\ Untold
  BY <1>1, Versions DEF Bounded, Settled, Untold, ErrorsInit
<1>5. Counting
  BY <1>1, FS_EmptySet DEF Counting, ErrorsInit, NoMessages
<1>6. Numbered /\ Withheld /\ \A c \in Clients : Kept(c)
  BY <1>1 DEF ListInit, Numbered, Withheld, Kept, ErrorsInit
<1>. QED BY <1>1, <1>3, <1>4, <1>5, <1>6 DEF ListInv

(* Nothing is hidden where the invariant holds.                            *)
LEMMA ListInvShows == ListInv => ClientsShowAlarms
<1>. SUFFICES ASSUME ListInv, evaluated, NEW c \in Clients,
                     Answered.id = client[c].seen
              PROVE  client[c].shown = Listing
  BY DEF ClientsShowAlarms
<1>1. client[c].seen = answers.id /\ Answered.id = answers.id
  <2>1. /\ answers.id \in Nat /\ Answered.id \in Nat
        /\ answers.id <= Answered.id /\ client[c].seen <= answers.id
    BY AnswerNumbers, Versions DEF ListInv, ListTypeOK, Numbered
  <2>. QED BY <2>1
<1>2. critid = answers.prevcrit /\ (Full => errid = answers.preverr)
  BY <1>1, AnswerNumbers
<1>3. client[c].shown.crit = crit
  BY <1>1, <1>2 DEF ListInv, Kept
<1>4. CASE Full
  <2>1. /\ client[c].shown.err = err
        /\ \A o \in Objects :
              /\ client[c].shown.msgs[o] \subseteq msgs[o]
              /\ wascmd[o] \/ prevsize[o] <= Cardinality(client[c].shown.msgs[o])
    BY <1>1, <1>2, <1>4 DEF ListInv, Kept, Full
  <2>2. ASSUME NEW o \in Objects PROVE client[c].shown.msgs[o] = msgs[o]
    <3>1. ~ wascmd[o] /\ prevsize[o] = Cardinality(msgs[o])
      BY DEF ListInv, Settled, Quiet, MessagesChanged
    <3>2. IsFiniteSet(msgs[o])
      BY MessageCount DEF ListInv, ErrorsTypeOK
    <3>. QED BY <2>1, <3>1, <3>2, FS_Subset, FS_CardinalityType
  <2>3. client[c].shown.msgs = msgs
    BY <2>2 DEF ListInv, ListTypeOK, Shown, ErrorsTypeOK
  <2>. QED BY <1>3, <1>4, <2>1, <2>3 DEF Listing, ListInv, ListTypeOK, Shown
<1>5. CASE ~ Full
  <2>1. client[c].shown.err = NoAlarms /\ client[c].shown.msgs = NoMessages
    BY <1>3, <1>5 DEF ListInv, Withheld, Full
  <2>. QED BY <1>3, <1>5, <2>1 DEF Listing, ListInv, ListTypeOK, Shown
<1>. QED BY <1>4, <1>5

(* Once a cycle's alarms are evaluated, a client that is told that nothing *)
(* has changed shows the alarms, messages and critical errors there are,   *)
(* however many clients poll whenever they like                            *)
(* (device_communicator::write_devices_states_service).                    *)
THEOREM ClientsAreTold == ListSpec => []ClientsShowAlarms
<1>. QED BY ListInitInv, ListInvInductive, ListInvShows, PTL DEF ListSpec
=============================================================================
