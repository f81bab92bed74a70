----------------------- MODULE StrategyManagerProofs -----------------------
(* Theorems of StrategyManager, for any applications, injectors, budget and *)
(* cooldowns.                                                               *)
EXTENDS StrategyManager, TLAPS

USE ManagerAssumption, LevelsAssumption DEF ManagerAssumption, LevelsAssumption

LEMMA OrderType == MethodOrder \in Seq(Methods)
<1> DEFINE a == IF Display = {} THEN <<>> ELSE <<"atspi">>
           k == IF "kdotool" \in OptIn THEN <<"kdotool">> ELSE <<>>
           e == IF "enigo" \in OptIn THEN <<"enigo">> ELSE <<>>
           z == <<"clipboard", "noop">>
<1>1. a \in Seq(Methods) /\ k \in Seq(Methods) /\ e \in Seq(Methods)
  <2>1. "atspi" \in Methods /\ "kdotool" \in Methods /\ "enigo" \in Methods
    BY DEF Methods, Real, Optional
  <2>2. \A m \in Methods : <<m>> \in Seq(Methods)
    OBVIOUS
  <2>3. <<>> \in Seq(Methods)
    OBVIOUS
  <2>4. QED BY <2>1, <2>2, <2>3
<1>2. z \in Seq(Methods)
  BY DEF Methods, Real, Optional
<1> HIDE DEF a, k, e, z
<1>3. ((a \o k) \o e) \o z \in Seq(Methods)
  BY <1>1, <1>2
<1>4. QED BY <1>3 DEF MethodOrder, a, k, e, z

LEMMA MethodType == ASSUME NEW i \in 1 .. Len(MethodOrder)
                    PROVE  MethodOrder[i] \in Methods
  BY OrderType

LEMMA LenType == Len(MethodOrder) \in Nat
  BY OrderType

\* The table with one entry replaced.
LEMMA Replaced ==
  ASSUME NEW S, NEW f \in Records(S), NEW a \in Apps, NEW m \in Methods,
         NEW v \in S
  PROVE  /\ [f EXCEPT ![a][m] = v] \in Records(S)
         /\ \A b \in Apps, n \in Methods :
              [f EXCEPT ![a][m] = v][b][n] =
                IF b = a /\ n = m THEN v ELSE f[b][n]
  BY DEF Records

\* Some application is named, whoever names it.
LEMMA AppIdType ==
    \A focused, class \in Apps \union {"none"} : AppId(focused, class) \in Apps
  BY DEF AppId

LEMMA Raised == ASSUME NEW n \in Nat, NEW l \in 0 .. TopLevel
                PROVE  RaisedBy(n, l) \in 0 .. TopLevel
  BY DEF RaisedBy, Shortest

LEMMA Counted == ASSUME NEW n \in 0 .. 3
                 PROVE  /\ Shortest(n + 1, 3) \in 0 .. 3
                        /\ Applications(Shortest(n + 1, 3)) \in 1 .. 2
  BY DEF Shortest, Applications

\* An injector is called at one of the positions of the order.
AtMethod == pc = "call" => turn <= Len(MethodOrder)

LEMMA AtMethodStep == ASSUME AtMethod, [Next]_vars PROVE AtMethod'
  BY DEF AtMethod, Next, CallStep, Inject, FocusKnown, AppKnown, Skip,
         RunOutOfBudget, Try, Succeed, Fail, GiveUp, Collect, Tick, Return,
         NextMethod, vars, callVars

LEMMA TypeInit == Init => TypeOK /\ AtMethod
  BY LenType DEF Init, TypeOK, AtMethod, Records

LEMMA TypeStep == ASSUME TypeOK, AtMethod, [Next]_vars PROVE TypeOK'
<1> USE LenType DEF TypeOK, historyVars, callVars, triedVars
<1>1. CASE Inject \/ Collect
  BY <1>1 DEF Inject, Collect, Return
<1>2. ASSUME NEW f \in Focuses, FocusKnown(f) PROVE TypeOK'
  BY <1>2 DEF FocusKnown, Return
<1>3. ASSUME NEW a \in Apps, AppKnown(a) PROVE TypeOK'
  BY <1>3 DEF AppKnown, Return
<1>4. CASE Skip \/ Try
  <2>1. CASE Skip
    <3>1. Method \in Methods
      BY <2>1, MethodType DEF Skip, Method
    <3>2. QED BY <2>1, <3>1 DEF Skip, NextMethod
  <2>2. QED BY <1>4, <2>1 DEF Try
<1>5. CASE RunOutOfBudget \/ GiveUp
  BY <1>5 DEF RunOutOfBudget, GiveUp, Return
<1>6. CASE Succeed
  <2>1. app \in Apps /\ Method \in Methods
    BY <1>6, MethodType DEF Succeed, Method, AtMethod
  <2>2. 0 \in 0 .. MaxCooldown /\ 0 \in 0 .. TopLevel
    OBVIOUS
  <2>3. /\ rest' = [rest EXCEPT ![app][Method] = 0]
        /\ level' = [level EXCEPT ![app][Method] = 0]
    BY <1>6 DEF Succeed, ClearLevel
  <2>4. rest' \in Records(0 .. MaxCooldown)
    BY <2>1, <2>2, <2>3, Replaced
  <2>5. level' \in Records(0 .. TopLevel)
    BY <2>1, <2>2, <2>3, Replaced
  <2>6. QED BY <1>6, <2>4, <2>5 DEF Succeed, Return
<1>7. CASE Fail
  <2> DEFINE count == Shortest(fails[app][Method] + 1, 3)
             n == Applications(count)
             l == level[app][Method]
  <2>1. app \in Apps /\ Method \in Methods
    BY <1>7, MethodType DEF Fail, Method, AtMethod
  <2>2. fails[app][Method] \in 0 .. 3 /\ l \in 0 .. TopLevel
    BY <2>1 DEF Records
  <2>3. count \in 0 .. 3 /\ n \in 1 .. 2
    BY <2>2, Counted
  <2>4. /\ fails' = [fails EXCEPT ![app][Method] = count]
        /\ level' = [level EXCEPT ![app][Method] = RaisedBy(n, l)]
        /\ rest' = [rest EXCEPT
                      ![app][Method] = CooldownAt(RaisedBy(n - 1, l))]
        /\ tried' = tried \union {Method} /\ pc' = "loop" /\ turn' = turn + 1
        /\ UNCHANGED <<app, result, waited, spent>>
    BY <1>7 DEF Fail, NextMethod
  <2> HIDE DEF count, n, l
  <2>5. fails' \in Records(0 .. 3)
    BY <2>1, <2>3, <2>4, Replaced
  <2>6. /\ RaisedBy(n, l) \in 0 .. TopLevel
        /\ RaisedBy(n - 1, l) \in 0 .. TopLevel
    <3>1. n \in Nat /\ n - 1 \in Nat
      BY <2>3
    <3>2. QED BY <2>2, <3>1, Raised
  <2>7. level' \in Records(0 .. TopLevel)
    BY <2>1, <2>4, <2>6, Replaced
  <2>8. rest' \in Records(0 .. MaxCooldown)
    BY <2>1, <2>4, <2>6, Replaced
  <2>9. turn + 1 \in 1 .. Len(MethodOrder) + 1
    BY <1>7 DEF Fail, AtMethod
  <2>10. QED BY <2>1, <2>4, <2>5, <2>7, <2>8, <2>9
<1>8. CASE Tick
  <2>1. \A a \in Apps, m \in Methods : OneLess(rest[a][m]) \in 0 .. MaxCooldown
    BY SMTT(30) DEF OneLess, Records
  <2>2. rest' \in Records(0 .. MaxCooldown)
    BY <1>8, <2>1 DEF Tick, Records
  <2>3. spent' \in 0 .. Budget
    BY <1>8 DEF Tick, Shortest
  <2>4. QED BY <1>8, <2>2, <2>3 DEF Tick
<1>9. CASE UNCHANGED vars
  BY <1>9 DEF vars
<1>10. QED
  BY <1>1, <1>2, <1>3, <1>4, <1>5, <1>6, <1>7, <1>8, <1>9, AppIdType
  DEF Next, CallStep

\* Every variable keeps its type: the manager never looks beyond the last
\* method of the order, and no cooldown or level leaves its bounds.
THEOREM TypeCorrect == Spec => []TypeOK
<1>1. TypeOK /\ AtMethod /\ [Next]_vars => (TypeOK /\ AtMethod)'
  BY TypeStep, AtMethodStep
<1>2. QED BY TypeInit, <1>1, PTL DEF Spec

-----------------------------------------------------------------------------
(* Cooldowns                                                                *)

\* What a failure imposes is what the level it leads to has earned.
LEMMA Earned ==
  ASSUME NEW n \in 1 .. 2, NEW l \in 0 .. TopLevel
  PROVE  /\ RaisedBy(n, l) > 0
         /\ CooldownAt(RaisedBy(n - 1, l)) <= CooldownAt(RaisedBy(n, l) - 1)
<1>1. RaisedBy(n, l) > 0
  BY DEF RaisedBy, Shortest
<1>2. RaisedBy(n - 1, l) \in 0 .. TopLevel
  BY DEF RaisedBy, Shortest
<1>3. CASE l + n <= TopLevel
  <2>1. RaisedBy(n, l) - 1 = RaisedBy(n - 1, l)
    BY <1>3 DEF RaisedBy, Shortest
  <2>2. CooldownAt(RaisedBy(n - 1, l)) \in 0 .. MaxCooldown
    BY <1>2
  <2>3. QED BY <1>1, <2>1, <2>2
<1>4. CASE ~(l + n <= TopLevel)
  <2>1. RaisedBy(n, l) = TopLevel
    BY <1>4 DEF RaisedBy, Shortest
  <2>2. CooldownAt(RaisedBy(n - 1, l)) \in 0 .. MaxCooldown
    BY <1>2
  <2>3. QED BY <1>1, <2>1, <2>2
<1>5. QED BY <1>3, <1>4

\* What Fail does to the tables, with the numbers it computes named.
LEMMA FailEffect ==
  ASSUME TypeOK, AtMethod, Fail
  PROVE  /\ app \in Apps /\ Method \in Methods
         /\ \E n \in 1 .. 2, l \in 0 .. TopLevel :
              /\ level' = [level EXCEPT ![app][Method] = RaisedBy(n, l)]
              /\ rest' = [rest EXCEPT
                            ![app][Method] = CooldownAt(RaisedBy(n - 1, l))]
<1>1. app \in Apps /\ Method \in Methods
  BY MethodType, LenType DEF Fail, Method, AtMethod, TypeOK
<1>2. fails[app][Method] \in 0 .. 3 /\ level[app][Method] \in 0 .. TopLevel
  BY <1>1 DEF Records, TypeOK
<1>3. Applications(Shortest(fails[app][Method] + 1, 3)) \in 1 .. 2
  BY <1>2, Counted
<1>4. QED BY <1>1, <1>2, <1>3 DEF Fail

\* The bound on one entry.
Within(a, m) ==
  rest[a][m] <= IF level[a][m] = 0 THEN 0 ELSE CooldownAt(level[a][m] - 1)

LEMMA WaitsStep ==
  ASSUME TypeOK, AtMethod, WaitsWithinLevel, [Next]_vars
  PROVE  WaitsWithinLevel'
<1>1. SUFFICES ASSUME NEW b \in Apps, NEW k \in Methods PROVE Within(b, k)'
  BY <1>1 DEF WaitsWithinLevel, Within
<1>2. /\ Within(b, k)
      /\ rest[b][k] \in 0 .. MaxCooldown /\ level[b][k] \in 0 .. TopLevel
  BY DEF WaitsWithinLevel, Within, TypeOK, Records
<1>3. CASE UNCHANGED <<rest, level>>
  BY <1>2, <1>3 DEF Within
<1>4. CASE Succeed
  <2>1. app \in Apps /\ Method \in Methods
    BY <1>4, MethodType, LenType DEF Succeed, Method, AtMethod, TypeOK
  <2>2. /\ rest' = [rest EXCEPT ![app][Method] = 0]
        /\ level' = [level EXCEPT ![app][Method] = 0]
    BY <1>4 DEF Succeed, ClearLevel
  <2>3. CASE b = app /\ k = Method
    <3>1. rest'[b][k] = 0 /\ level'[b][k] = 0
      BY <2>2, <2>3 DEF TypeOK, Records
    <3>2. QED BY <3>1 DEF Within
  <2>4. CASE ~(b = app /\ k = Method)
    <3>1. rest'[b][k] = rest[b][k] /\ level'[b][k] = level[b][k]
      BY <2>1, <2>2, <2>4, Replaced DEF TypeOK
    <3>2. QED BY <1>2, <3>1 DEF Within
  <2>5. QED BY <2>3, <2>4
<1>5. CASE Fail
  <2>1. app \in Apps /\ Method \in Methods
    BY <1>5, FailEffect
  <2>2. PICK n \in 1 .. 2, l \in 0 .. TopLevel :
          /\ level' = [level EXCEPT ![app][Method] = RaisedBy(n, l)]
          /\ rest' = [rest EXCEPT
                        ![app][Method] = CooldownAt(RaisedBy(n - 1, l))]
    BY <1>5, FailEffect
  <2>3. /\ RaisedBy(n, l) \in 0 .. TopLevel
        /\ RaisedBy(n - 1, l) \in 0 .. TopLevel
    BY DEF RaisedBy, Shortest
  <2>4. CooldownAt(RaisedBy(n - 1, l)) \in 0 .. MaxCooldown
    BY <2>3
  <2>5. CASE b = app /\ k = Method
    <3>1. level'[b][k] = RaisedBy(n, l)
      BY <2>2, <2>5 DEF TypeOK, Records
    <3>2. rest'[b][k] = CooldownAt(RaisedBy(n - 1, l))
      BY <2>2, <2>5 DEF TypeOK, Records
    <3>3. QED BY <2>3, <3>1, <3>2, Earned DEF Within
  <2>6. CASE ~(b = app /\ k = Method)
    <3>1. level'[b][k] = level[b][k]
      BY <2>1, <2>2, <2>3, <2>6, Replaced DEF TypeOK
    <3>2. rest'[b][k] = rest[b][k]
      BY <2>1, <2>2, <2>4, <2>6, Replaced DEF TypeOK
    <3>3. QED BY <1>2, <3>1, <3>2 DEF Within
  <2>7. QED BY <2>5, <2>6
<1>6. CASE Tick
  <2>1. rest'[b][k] = OneLess(rest[b][k]) /\ level' = level
    BY <1>6 DEF Tick
  <2>2. rest'[b][k] \in 0 .. MaxCooldown /\ rest'[b][k] <= rest[b][k]
    BY <1>2, <2>1 DEF OneLess
  <2>3. CASE level[b][k] = 0
    BY <1>2, <2>1, <2>2, <2>3 DEF Within
  <2>4. CASE level[b][k] # 0
    <3>1. CooldownAt(level[b][k] - 1) \in 0 .. MaxCooldown
      BY <1>2, <2>4
    <3>2. QED BY <1>2, <2>1, <2>2, <2>4, <3>1 DEF Within
  <2>5. QED BY <2>3, <2>4
<1>7. QED
  <2>1. CASE Next /\ ~Succeed /\ ~Fail /\ ~Tick
    <3>1. UNCHANGED <<rest, level>>
      BY <2>1 DEF Next, CallStep, Inject, FocusKnown, AppKnown, Skip,
         RunOutOfBudget, Try, GiveUp, Collect, historyVars
    <3>2. QED BY <1>3, <3>1
  <2>2. CASE UNCHANGED vars
    BY <1>3, <2>2 DEF vars, historyVars
  <2>3. QED BY <1>4, <1>5, <1>6, <2>1, <2>2

LEMMA WaitsInit == Init => WaitsWithinLevel
  BY DEF Init, WaitsWithinLevel

\* No method waits longer than its failures since its last success earned it,
\* whatever the interleaving of calls, failures and time.
THEOREM CooldownIsEarned == Spec => []WaitsWithinLevel
<1>1. TypeOK /\ AtMethod /\ WaitsWithinLevel /\ [Next]_vars
        => (TypeOK /\ AtMethod /\ WaitsWithinLevel)'
  BY TypeStep, AtMethodStep, WaitsStep
<1>2. QED BY TypeInit, WaitsInit, <1>1, PTL DEF Spec
-----------------------------------------------------------------------------
(* Calls that fail                                                          *)

\* A method that could not serve the call: it has failed in it, or its turn
\* came while it was cooling down.
PassedOver(m) == m \in tried \union waited

\* The registered methods before the loop's position are such; a call starts
\* at the first method, and has an answer only once it is over.
Progress ==
  /\ pc \in {"idle", "focus", "identify"} => turn = 1
  /\ result = "failed" => pc = "returned"
  /\ pc \in {"loop", "call"} =>
       \A i \in 1 .. turn - 1 :
          MethodOrder[i] \in Registered => PassedOver(MethodOrder[i])

LEMMA ProgressInit == Init => Progress /\ TriedEverything
  BY DEF Init, Progress, TriedEverything

\* What the loop takes for a cooldown is one.
LEMMA AskedRight == ASSUME NEW m, InCooldown(m) PROVE CoolsDown(m)
  BY DEF InCooldown, CoolsDown

LEMMA ProgressStep ==
  ASSUME TypeOK, AtMethod, Progress, TriedEverything, [Next]_vars
  PROVE  Progress' /\ TriedEverything'
<1> USE DEF Progress, TriedEverything, PassedOver, triedVars
<1>2. turn \in Nat /\ Len(MethodOrder) \in Nat /\ turn <= Len(MethodOrder) + 1
  BY LenType DEF TypeOK
<1>3. CASE Inject \/ (\E f \in Focuses : FocusKnown(f))
  BY <1>3 DEF Inject, FocusKnown, Return
<1>4. CASE \E a \in Apps : AppKnown(a)
  BY <1>2, <1>4 DEF AppKnown, Return
<1>5. CASE RunOutOfBudget \/ Succeed
  BY <1>5 DEF RunOutOfBudget, Succeed, Return
<1>6. CASE Try
  BY <1>6 DEF Try, historyVars
<1>7. CASE Skip
  <2>1. /\ pc = "loop" /\ pc' = "loop" /\ turn' = turn + 1
        /\ UNCHANGED <<result, tried>> /\ waited \subseteq waited'
    BY <1>7 DEF Skip, NextMethod
  <2>2. Method \in Registered => Method \in waited'
    BY <1>7, AskedRight DEF Skip
  <2>3. ASSUME NEW i \in 1 .. turn' - 1, MethodOrder[i] \in Registered
        PROVE  PassedOver(MethodOrder[i])'
    <3>1. i \in 1 .. turn - 1 \/ i = turn
      BY <1>2, <2>1
    <3>2. CASE i \in 1 .. turn - 1
      BY <2>1, <2>3, <3>2
    <3>3. CASE i = turn
      BY <2>2, <2>3, <3>3 DEF Method
    <3>4. QED BY <3>1, <3>2, <3>3
  <2>4. QED BY <2>1, <2>3
<1>8. CASE Fail
  <2>1. /\ pc = "call" /\ pc' = "loop" /\ turn' = turn + 1
        /\ UNCHANGED <<result, waited>> /\ tried' = tried \union {Method}
    BY <1>8 DEF Fail, NextMethod
  <2>2. ASSUME NEW i \in 1 .. turn' - 1, MethodOrder[i] \in Registered
        PROVE  PassedOver(MethodOrder[i])'
    <3>1. i \in 1 .. turn - 1 \/ i = turn
      BY <1>2, <2>1
    <3>2. CASE i \in 1 .. turn - 1
      BY <2>1, <2>2, <3>2
    <3>3. CASE i = turn
      BY <2>1, <3>3 DEF Method
    <3>4. QED BY <3>1, <3>2, <3>3
  <2>3. QED BY <2>1, <2>2
<1>9. CASE GiveUp
  <2>1. /\ pc = "loop" /\ turn > Len(MethodOrder)
        /\ pc' = "returned" /\ UNCHANGED <<tried, waited>>
    BY <1>9 DEF GiveUp, Return
  <2>2. ASSUME NEW m \in Registered \intersect Ordered
        PROVE  PassedOver(m)
    <3>1. PICK i \in 1 .. Len(MethodOrder) : m = MethodOrder[i]
      BY OrderType DEF Ordered
    <3>2. QED BY <1>2, <2>1, <2>2, <3>1
  <2>3. QED BY <2>1, <2>2
<1>10. CASE Collect
  BY <1>10 DEF Collect
<1>11. CASE Tick \/ UNCHANGED vars
  <2>1. UNCHANGED <<pc, turn, result, tried, waited>>
    BY <1>11 DEF Tick, vars, callVars
  <2>2. QED BY <2>1
<1>12. QED
  BY <1>3, <1>4, <1>5, <1>6, <1>7, <1>8, <1>9, <1>10, <1>11, AppIdType
  DEF Next, CallStep

\* inject() answers that every method failed only when each registered one of
\* the order has failed in that call, or was cooling down at its turn in it.
THEOREM NoMethodForgotten == Spec => []TriedEverything
<1>1. TypeOK /\ AtMethod /\ Progress /\ TriedEverything /\ [Next]_vars
        => (TypeOK /\ AtMethod /\ Progress /\ TriedEverything)'
  BY TypeStep, AtMethodStep, ProgressStep
<1>2. QED BY TypeInit, ProgressInit, <1>1, PTL DEF Spec
=============================================================================
