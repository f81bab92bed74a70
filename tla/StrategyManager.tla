--------------------------- MODULE StrategyManager ---------------------------
(***************************************************************************)
(* The StrategyManager of crates/coldvox-text-injection/src/manager.rs:    *)
(* one call of inject() checks the focus and the application, and then     *)
(* tries the injection methods in order until one succeeds.  A method that *)
(* fails cools down, longer each time, and the whole call has a budget of  *)
(* time.  inject() takes &mut self, so calls do not overlap; time may pass *)
(* wherever it waits for the focus tracker, for the window system or for   *)
(* an injector.                                                            *)
(*                                                                         *)
(* The order cached per application is the order computed: the settings    *)
(* and the environment it is computed from do not change, and the success  *)
(* rate only breaks ties between methods at the same position, of which    *)
(* there are none.  So the cache and the rates are left out.               *)
(***************************************************************************)
EXTENDS Integers, Sequences

CONSTANTS
    Apps,            \* identifiers of applications
    AllowPatterns,   \* allowlist: of each pattern, the identifiers it matches
    BlockPatterns,   \* blocklist, likewise
    Display,         \* the display servers: a subset of {"wayland", "x11"}
    OptIn,           \* allow_kdotool and allow_enigo
    Available,       \* the injectors that answer is_available at start
    RequireFocus,    \* require_focus: "yes" or "no"
    InjectOnUnknown, \* inject_on_unknown_focus: "yes" or "no"
    Budget,          \* max_total_latency_ms, in ticks
    Base,            \* cooldown_initial_ms, in ticks
    Factor,          \* cooldown_backoff_factor
    MaxCooldown,     \* cooldown_max_ms, in ticks
    TopLevel         \* backoff levels told apart

Optional == {"kdotool", "enigo"}
Real == {"atspi", "clipboard"} \union Optional
Methods == Real \union {"noop"}
Focuses == {"EditableText", "NonEditable", "Unknown"}

\* The cooldown that follows a failure, by the level reached before it.
Shortest(a, b) == IF a < b THEN a ELSE b
CooldownAt(level) == Shortest(Base * Factor ^ level, MaxCooldown)

ASSUME ManagerAssumption ==
    /\ "none" \notin Apps /\ "unknown" \in Apps
    /\ AllowPatterns \union BlockPatterns \subseteq SUBSET Apps
    /\ Display \subseteq {"wayland", "x11"}
    /\ OptIn \subseteq Optional
    /\ Available \subseteq Real
    /\ {RequireFocus, InjectOnUnknown} \subseteq {"yes", "no"}
    /\ Budget \in Nat /\ MaxCooldown \in Nat /\ TopLevel \in Nat \ {0}

\* From the top level on every failure has the same, longest, cooldown.
ASSUME LevelsAssumption ==
    /\ \A n \in 0 .. TopLevel : CooldownAt(n) \in 0 .. MaxCooldown
    /\ CooldownAt(TopLevel - 1) = MaxCooldown
    /\ CooldownAt(TopLevel) = MaxCooldown

\* AT-SPI first, the clipboard last, and after it the one that always works.
MethodOrder ==
    (IF Display = {} THEN <<>> ELSE <<"atspi">>)
      \o (IF "kdotool" \in OptIn THEN <<"kdotool">> ELSE <<>>)
      \o (IF "enigo" \in OptIn THEN <<"enigo">> ELSE <<>>)
      \o <<"clipboard", "noop">>

\* The clipboard needs a display; noop is registered only when nothing else is.
Usable ==
    (Available \intersect OptIn)
      \union (Available \intersect {"atspi"})
      \union (IF Display = {} THEN {} ELSE Available \intersect {"clipboard"})

Registered == IF Usable = {} THEN {"noop"} ELSE Usable

VARIABLES
    pc,      \* how far the call has got
    app,     \* the application it injects into, once that is known
    turn,    \* the position in the order it has come to
    spent,   \* ticks since global_start, during a call (saturating)
    rest,    \* ticks each method must still cool down, per application
    level,   \* the backoff level of each, per application
    fails,   \* fail_count of each, per application (saturating)
    result   \* what the call answered

\* History variables of a call, which no action reads.
VARIABLES
    tried,   \* the methods it has tried, and found to fail
    waited   \* the methods that were cooling down when their turn came

triedVars   == <<tried, waited>>
callVars    == <<pc, app, turn, result, triedVars>>
historyVars == <<rest, level, fails>>
vars == <<callVars, spent, historyVars>>

Records(values) == [Apps -> [Methods -> values]]

TypeOK ==
    /\ pc \in {"idle", "focus", "identify", "loop", "call", "returned"}
    /\ app \in IF pc \in {"loop", "call"} THEN Apps ELSE Apps \union {"none"}
    /\ turn \in 1 .. Len(MethodOrder) + 1
    /\ spent \in 0 .. Budget
    /\ rest \in Records(0 .. MaxCooldown)
    /\ level \in Records(0 .. TopLevel)
    /\ fails \in Records(0 .. 3)
    /\ result \in {"none", "ok", "refused", "budget", "failed"}
    /\ tried \in SUBSET Methods /\ waited \in SUBSET Methods

Init ==
    /\ pc = "idle" /\ app = "none" /\ turn = 1 /\ spent = 0
    /\ rest = [a \in Apps |-> [m \in Methods |-> 0]]
    /\ level = [a \in Apps |-> [m \in Methods |-> 0]]
    /\ fails = [a \in Apps |-> [m \in Methods |-> 0]]
    /\ result = "none" /\ tried = {} /\ waited = {}

Return(answer) == pc' = "returned" /\ result' = answer

-----------------------------------------------------------------------------
(* Before the first method                                                 *)

\* The budget starts to run; a budget of nothing is exhausted at once.
Inject ==
    /\ pc = "idle"
    /\ IF Budget = 0
       THEN Return("budget")
       ELSE pc' = "focus" /\ UNCHANGED result
    /\ UNCHANGED <<app, turn, triedVars, spent, historyVars>>

\* A focus tracker that fails counts as unknown focus.
Refuses(focus) ==
    \/ focus = "Unknown" /\ InjectOnUnknown = "no"
    \/ focus = "NonEditable" /\ RequireFocus = "yes"

FocusKnown(focus) ==
    /\ pc = "focus"
    /\ IF Refuses(focus)
       THEN Return("refused")
       ELSE pc' = "identify" /\ UNCHANGED result
    /\ UNCHANGED <<app, turn, triedVars, spent, historyVars>>

\* get_current_app_id: the focused object of AT-SPI, or else the class of the
\* active window, from the first tool that names one.
AppId(focused, class) ==
    IF focused # "none" THEN focused
    ELSE IF class # "none" THEN class
    ELSE "unknown"

\* is_app_allowed: an allowlist makes the blocklist void; a pattern that does
\* not compile matches nothing, and counts as an entry all the same.
Allowed ==
    IF AllowPatterns # {} THEN UNION AllowPatterns
    ELSE Apps \ UNION BlockPatterns

AppKnown(a) ==
    /\ pc = "identify"
    /\ app' = a
    /\ IF a \in Allowed
       THEN pc' = "loop" /\ UNCHANGED result
       ELSE Return("refused")
    /\ UNCHANGED <<turn, triedVars, spent, historyVars>>

-----------------------------------------------------------------------------
(* The loop over the methods                                               *)

Method == MethodOrder[turn]

\* A method cools down until the time its last failure set has come.
CoolsDown(m) == \E a \in Apps : rest[a][m] > 0

\* What the loop asks, whatever application a cooldown was imposed for.
InCooldownHere(m) == rest[app][m] > 0
InCooldownEver(m) == \E a \in Apps : level[a][m] > 0
InCooldown(m) == \E a \in Apps : rest[a][m] > 0

NextMethod == turn' = turn + 1

Skip ==
    /\ pc = "loop"
    /\ turn <= Len(MethodOrder)
    /\ \/ InCooldown(Method)
       \/ Method \notin Registered /\ spent < Budget
    /\ NextMethod
    /\ waited' = IF CoolsDown(Method) THEN waited \union {Method} ELSE waited
    /\ UNCHANGED <<pc, app, result, tried, spent, historyVars>>

RunOutOfBudget ==
    /\ pc = "loop"
    /\ turn <= Len(MethodOrder)
    /\ ~InCooldown(Method)
    /\ spent = Budget
    /\ Return("budget")
    /\ UNCHANGED <<app, turn, triedVars, spent, historyVars>>

Try ==
    /\ pc = "loop"
    /\ turn <= Len(MethodOrder)
    /\ ~InCooldown(Method)
    /\ spent < Budget
    /\ Method \in Registered
    /\ pc' = "call"
    /\ UNCHANGED <<app, turn, result, triedVars, spent, historyVars>>

\* clear_cooldown removes the entry, and its level with it.
ClearLevel == [level EXCEPT ![app][Method] = 0]

Succeed ==
    /\ pc = "call"
    /\ Return("ok")
    /\ rest' = [rest EXCEPT ![app][Method] = 0]
    /\ level' = ClearLevel
    /\ UNCHANGED <<app, turn, triedVars, spent, fails>>

\* The third failure, and every one after it, cools the method down twice:
\* the success record does it as well as the loop.
Applications(count) == IF count > 2 THEN 2 ELSE 1

NeverRaised(n, l) == l
RaisedBy(n, l) == Shortest(l + n, TopLevel)

Fail ==
    LET count == Shortest(fails[app][Method] + 1, 3)
        n     == Applications(count)
        l     == level[app][Method]
    IN  /\ pc = "call"
        /\ Method # "noop"
        /\ fails' = [fails EXCEPT ![app][Method] = count]
        /\ level' = [level EXCEPT ![app][Method] = RaisedBy(n, l)]
        /\ rest' =
             [rest EXCEPT ![app][Method] = CooldownAt(RaisedBy(n - 1, l))]
        /\ tried' = tried \union {Method}
        /\ pc' = "loop"
        /\ NextMethod
        /\ UNCHANGED <<app, result, waited, spent>>

\* With fail_fast the process exits here instead; no setting turns it on.
GiveUp ==
    /\ pc = "loop"
    /\ turn > Len(MethodOrder)
    /\ Return("failed")
    /\ UNCHANGED <<app, turn, triedVars, spent, historyVars>>

\* The caller takes the answer, and what was local to the call is gone.
Collect ==
    /\ pc = "returned"
    /\ pc' = "idle"
    /\ app' = "none" /\ turn' = 1 /\ spent' = 0
    /\ result' = "none" /\ tried' = {} /\ waited' = {}
    /\ UNCHANGED historyVars

-----------------------------------------------------------------------------
OneLess(n) == IF n = 0 THEN 0 ELSE n - 1

Tick ==
    /\ spent' = IF pc = "idle" THEN 0 ELSE Shortest(spent + 1, Budget)
    /\ rest' = [a \in Apps |-> [m \in Methods |-> OneLess(rest[a][m])]]
    /\ UNCHANGED <<callVars, level, fails>>

CallStep ==
    \/ \E f \in Focuses : FocusKnown(f)
    \/ \E focused, class \in Apps \union {"none"} :
          AppKnown(AppId(focused, class))
    \/ Skip \/ RunOutOfBudget \/ Try
    \/ Succeed \/ Fail
    \/ GiveUp

Next ==
    \/ Inject \/ CallStep \/ Collect
    \/ Tick

Spec == Init /\ [][Next]_vars

\* Time passes.  Nothing is promised of the injectors, nor of the caller.
FairSpec == Spec /\ WF_vars(Tick)

-----------------------------------------------------------------------------
Ordered == {MethodOrder[i] : i \in DOMAIN MethodOrder}

\* A call fails only after every method that could have served it: each
\* registered method of the order has been tried and has failed in this call,
\* or was still cooling down when its turn came (inject).
TriedEverything ==
    result = "failed" =>
        Registered \intersect Ordered \subseteq tried \union waited

\* A method never waits longer than its failures since its last success, in
\* that application, have earned it; with no failure it does not wait
\* (apply_cooldown, clear_cooldown).
WaitsWithinLevel ==
    \A a \in Apps, m \in Methods :
        rest[a][m] <=
            IF level[a][m] = 0 THEN 0 ELSE CooldownAt(level[a][m] - 1)

\* A method that cools down becomes usable again in every application: while
\* it cools down for one it is not tried in any, so no other cooldown can
\* take over from the first (is_in_cooldown).
CooldownsEnd ==
    \A m \in Methods :
        (\E a \in Apps : rest[a][m] > 0) ~> \A a \in Apps : rest[a][m] = 0

\* What comments say, and the code does not do.

\* "Initial cooldown period after a method fails for a specific application"
\* (types.rs): a method is passed over only for an application it failed in.
CooldownIsPerApp ==
    [][ pc = "loop" /\ turn' = turn + 1 /\ pc' = "loop"
          => MethodOrder[turn] \notin Registered
             \/ rest[app][MethodOrder[turn]] > 0 ]_vars

\* "Initial cooldown period after a method fails": the first failure since a
\* success, or ever, costs the initial cooldown.
StartsAtInitial ==
    [][ \A a \in Apps, m \in Methods :
          level[a][m] = 0 /\ rest'[a][m] > rest[a][m]
              => rest'[a][m] = CooldownAt(0) ]_vars

\* "Overall latency budget for a single injection call, across all fallbacks"
\* (types.rs): no injector is still working when the budget is spent.
StaysWithinBudget == pc = "call" => spent < Budget
=============================================================================
