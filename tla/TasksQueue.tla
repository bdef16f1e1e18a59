----------------------------- MODULE TasksQueue -----------------------------
(* The Cloud Tasks emulator: the queues of tasks-front/src/queue.rs and the *)
(* ticker and request tasks of tasks-front/src/runtime.rs that drive them.  *)
(*                                                                          *)
(* Every entry point holds the state mutex throughout.  A tick visits the   *)
(* queues one after the other under it: turn is the place of the queue that *)
(* is next, and 1 when no tick is under way.  Time is counted in units, of  *)
(* which Second make one second, and tokens in parts, of which Token make   *)
(* one token.  An instant is kept as its age, up to the age from which the  *)
(* code can no longer tell the difference.                                  *)
EXTENDS Integers, Sequences, FiniteSets

CONSTANTS
    QueueKeys,          \* keys of queues
    Configs,            \* configurations that are registered
    Names,              \* names of tasks
    QUEUE_CAPACITY,
    Second, Token,
    Free, Never, NoLimit, Idle,     \* Option::None, in its several places
    MaxRegistrations    \* bound on the queues registered

ConfigType == [slots : Nat, rate : Nat, max_attempts : Nat,
               max_retry : Nat \cup {NoLimit},
               min_backoff : Nat, max_backoff : Nat, max_doublings : Nat]

ASSUME ConstantsAssumption ==
    /\ Configs \subseteq ConfigType
    /\ QUEUE_CAPACITY \in Nat
    /\ Second \in Nat \ {0}
    /\ Token \in Nat \ {0} /\ Token % 10 = 0
    /\ Never \notin Nat /\ NoLimit \notin Nat
    /\ MaxRegistrations \in Nat

VARIABLES
    queues,         \* State::queues
    order,          \* ... and the order of their keys
    next_dispatch,
    requests,       \* the request tasks under way
    ticker,         \* whether the ticker task runs
    turn,           \* the queue that the tick under way visits next
    refresh,        \* what refresh_inventory is about to register
    registrations   \* history: how many queues were registered

vars == <<queues, order, next_dispatch, requests, ticker, turn, refresh, registrations>>

-----------------------------------------------------------------------------
Least(a, b) == IF a < b THEN a ELSE b
Most(a, b) == IF a < b THEN b ELSE a

(* Fault: the bucket holds what comes in within a second. *)
OneSecond(c) == c.rate * Second

(* js_max(max_dispatches_per_second, 1.1): a queue slower than one dispatch *)
(* per second must still be able to save up a whole token.                  *)
max_tokens(c) == Most(c.rate * Second, Token + Token \div 10)

(* Ages from which on nothing changes: a refill is full, a backoff is over, *)
(* a retry window has closed.                                               *)
RefillAge(c) == Most(Second, (max_tokens(c) - 1) \div Most(c.rate, 1) + 1)
RetryAge(c) == IF c.max_retry = NoLimit THEN 0 ELSE c.max_retry + 1

Status == {"NotStarted", "Running", "Retry", "Failed", "Finished"}

Dispatch(c) ==
    [id : Nat, task : Names, status : Status, attempt : Nat \ {0},
     backoff : Int,
     last_run : 0 .. c.max_backoff \cup {Never},
     started : 0 .. RetryAge(c)]

ASSUME FreeAssumption == \A c \in Configs : Free \notin Dispatch(c)

(* history: born numbers the queues, level is how far the dispatches are    *)
(* ahead of the rate, ended has the tasks whose dispatch is over, and late  *)
(* those deleted after they were dispatched.                                *)
New(c) ==
    [config |-> c, pending |-> <<>>, count |-> 0, known |-> {}, queued |-> {},
     slots |-> [i \in 1 .. c.slots |-> Free],
     open |-> [i \in 1 .. c.slots |-> i],
     tokens |-> 0, age |-> 0,
     born |-> registrations, level |-> 0, ended |-> {}, late |-> {}]

Init ==
    /\ queues = <<>>
    /\ order = <<>>
    /\ next_dispatch = 0
    /\ requests = {}
    /\ ticker = TRUE
    /\ turn = 1
    /\ refresh = Idle
    /\ registrations = 0

Known(k) == k \in DOMAIN queues
Unlocked == turn = 1
Busy(q) == {i \in DOMAIN q.slots : q.slots[i] # Free}

-----------------------------------------------------------------------------
(* Registration.                                                            *)

(* Fault: dispatches are numbered per queue. *)
RegisterRenumbers(k, c) ==
    /\ queues' = [j \in DOMAIN queues \cup {k} |-> IF j = k THEN New(c) ELSE queues[j]]
    /\ order' = IF Known(k) THEN order ELSE Append(order, k)
    /\ registrations' = registrations + 1
    /\ next_dispatch' = 0
    /\ UNCHANGED <<requests, ticker, turn>>

register_queue(k, c) ==
    /\ queues' = [j \in DOMAIN queues \cup {k} |-> IF j = k THEN New(c) ELSE queues[j]]
    /\ order' = IF Known(k) THEN order ELSE Append(order, k)
    /\ registrations' = registrations + 1
    /\ UNCHANGED <<next_dispatch, requests, ticker, turn>>

(* POST of a queue. *)
register(k, c) ==
    /\ Unlocked
    /\ registrations < MaxRegistrations
    /\ register_queue(k, c)
    /\ UNCHANGED refresh

(* refresh_inventory compares a declared queue with the registered one ...  *)
RefreshCompares(k, c) ==
    /\ Unlocked
    /\ refresh = Idle
    /\ Known(k) => queues[k].config # c
    /\ refresh' = [key |-> k, config |-> c]
    /\ UNCHANGED <<queues, order, next_dispatch, requests, ticker, turn, registrations>>

(* ... and registers the one that differed under a mutex taken anew.        *)
RefreshRegisters ==
    /\ Unlocked
    /\ refresh # Idle
    /\ registrations < MaxRegistrations
    /\ register_queue(refresh.key, refresh.config)
    /\ refresh' = Idle

-----------------------------------------------------------------------------
(* Tasks.                                                                   *)

Accepts(q, n) ==
    /\ n \notin q.queued
    /\ q.count < QUEUE_CAPACITY
    /\ n \notin q.known

Enqueued(q, n) ==
    [q EXCEPT !.known = @ \cup {n}, !.queued = @ \cup {n},
              !.pending = Append(@, n), !.count = @ + 1]

(* The ticker is started again before the queue is looked up: a refused     *)
(* task starts it too.                                                      *)
enqueue(k, n) ==
    /\ Unlocked
    /\ ticker' = TRUE
    /\ queues' = IF Known(k) /\ Accepts(queues[k], n)
                 THEN [queues EXCEPT ![k] = Enqueued(@, n)]
                 ELSE queues
    /\ UNCHANGED <<order, next_dispatch, requests, turn, refresh, registrations>>

(* A queue accepts a name once, so that there is at most one place to drop. *)
Places(q, n) == {i \in DOMAIN q.pending : q.pending[i] = n}
Retained(s, places) ==
    IF places = {} THEN s
    ELSE LET i == CHOOSE i \in places : TRUE
         IN SubSeq(s, 1, i - 1) \o SubSeq(s, i + 1, Len(s))

Removed(q, n) ==
    [q EXCEPT !.known = @ \ {n}, !.count = @ - 1,
              !.pending = Retained(@, Places(q, n)),
              !.late = IF Places(q, n) = {} THEN @ \cup {n} ELSE @]

remove(k, n) ==
    /\ Unlocked
    /\ Known(k)
    /\ n \in queues[k].known
    /\ queues' = [queues EXCEPT ![k] = Removed(@, n)]
    /\ UNCHANGED <<order, next_dispatch, requests, ticker, turn, refresh, registrations>>

-----------------------------------------------------------------------------
(* The tick.                                                                *)

(* Fault: last_token_update stays. *)
RefillAgain(q) ==
    IF q.age < Second THEN q
    ELSE [q EXCEPT !.tokens = Least(@ + q.age * q.config.rate, max_tokens(q.config))]

refill_tokens(q) ==
    IF q.age < Second THEN q
    ELSE [q EXCEPT !.tokens = Least(@ + q.age * q.config.rate, max_tokens(q.config)),
                   !.age = 0]

is_active(q) == q.pending # <<>> \/ Busy(q) # {}

(* How often the loop of dispatch_tasks runs. *)
Dispatched(q) == Least(Least(Len(q.pending), Len(q.open)), q.tokens \div Token)

NewDispatch(id, n) ==
    [id |-> id, task |-> n, status |-> "NotStarted", attempt |-> 1,
     backoff |-> 0, last_run |-> Never, started |-> 0]

(* The last slot of open takes the first task, and so on; next is the last  *)
(* dispatch id in use.                                                      *)
Turns(q, i) == {j \in 1 .. Dispatched(q) : q.open[Len(q.open) + 1 - j] = i}
Turn(q, i) == CHOOSE j \in Turns(q, i) : TRUE
Filled(q, next) ==
    [i \in DOMAIN q.slots |->
        IF Turns(q, i) = {} THEN q.slots[i]
        ELSE NewDispatch(next + Turn(q, i), q.pending[Turn(q, i)])]

dispatch_tasks(q, next) ==
    LET n == Dispatched(q)
    IN [q EXCEPT
        !.slots = Filled(q, next),
        !.open = SubSeq(@, 1, Len(@) - n),
        !.pending = SubSeq(@, n + 1, Len(@)),
        !.count = @ - n,
        !.tokens = @ - n * Token,
        !.level = @ + n * Token]

should_stop_retrying(d, c) ==
    /\ d.attempt > c.max_attempts
    /\ c.max_retry \in {NoLimit, 0} \/ d.started > c.max_retry

(* Doubling max_doublings times, then growing by equal steps. *)
Backoff(a, c) ==
    Least(c.max_backoff,
          c.min_backoff * (2 ^ Least(a - 1, c.max_doublings)
                           + Most(0, a - c.max_doublings - 1) * 2 ^ c.max_doublings))

update_metadata(d, c) ==
    [d EXCEPT !.backoff = Backoff(d.attempt, c), !.attempt = @ + 1]

Over(d) == d # Free /\ d.status \in {"Failed", "Finished"}
Starts(d) ==
    /\ d # Free
    /\ d.status = "NotStarted"
    /\ d.last_run # Never => d.last_run >= d.backoff

Processed(d, c) ==
    CASE Over(d)   -> Free
      [] Starts(d) -> [d EXCEPT !.status = "Running"]
      [] d # Free /\ d.status = "Retry" ->
            IF should_stop_retrying(d, c) THEN [d EXCEPT !.status = "Failed"]
            ELSE [update_metadata(d, c) EXCEPT !.status = "NotStarted"]
      [] OTHER     -> d

Ascending(S) ==
    [r \in 1 .. Cardinality(S) |->
        CHOOSE i \in S : Cardinality({j \in S : j <= i}) = r]

(* Fault: a task that is given up keeps its slot. *)
FreedFinished(q) ==
    Ascending({i \in Busy(q) : q.slots[i].status = "Finished"})

(* The slots that process frees, in their order. *)
Freed(q) == Ascending({i \in DOMAIN q.slots : Over(q.slots[i])})

process(q) ==
    [q EXCEPT !.slots = [i \in DOMAIN @ |-> Processed(@[i], q.config)],
              !.open = @ \o Freed(q),
              !.ended = @ \cup {q.slots[i].task : i \in {i \in Busy(q) : Over(q.slots[i])}}]

(* history: the queue that a request was made for. *)
Request(k, q, d) == [key |-> k, id |-> d.id, attempt |-> d.attempt, born |-> q.born]
Made(k, q) == {Request(k, q, q.slots[i]) : i \in {i \in Busy(q) : Starts(q.slots[i])}}

tick ==
    /\ turn = 1 => ticker
    /\ turn \in DOMAIN order
    /\ LET k == order[turn]
           q == refill_tokens(queues[k])
           p == dispatch_tasks(q, next_dispatch)
       IN IF is_active(q)
          THEN /\ queues' = [queues EXCEPT ![k] = process(p)]
               /\ next_dispatch' = next_dispatch + Dispatched(q)
               /\ requests' = requests \cup Made(k, p)
          ELSE /\ queues' = [queues EXCEPT ![k] = q]
               /\ UNCHANGED <<next_dispatch, requests>>
    /\ turn' = IF turn = Len(order) THEN 1 ELSE turn + 1
    /\ UNCHANGED <<order, ticker, refresh, registrations>>

shutdown ==
    /\ Unlocked
    /\ ticker' = FALSE
    /\ UNCHANGED <<queues, order, next_dispatch, requests, turn, refresh, registrations>>

-----------------------------------------------------------------------------
(* The request tasks.                                                       *)

Matches(d, id) == d # Free /\ d.id = id /\ d.status = "Running"

complete(q, id, delivered) ==
    [q EXCEPT !.slots = [i \in DOMAIN @ |->
        IF Matches(@[i], id)
        THEN IF delivered THEN [@[i] EXCEPT !.status = "Finished"]
             ELSE [@[i] EXCEPT !.status = "Retry", !.last_run = 0]
        ELSE @[i]]]

(* The request of r is answered, refused or reaches its deadline; the       *)
(* outcome is written to whatever queue has the key by then.                *)
run(r, delivered) ==
    /\ Unlocked
    /\ r \in requests
    /\ requests' = requests \ {r}
    /\ queues' = [queues EXCEPT ![r.key] = complete(@, r.id, delivered)]
    /\ UNCHANGED <<order, next_dispatch, ticker, turn, refresh, registrations>>

(* Time passes. *)
Older(age, most) == Least(age + 1, most)
AgedDispatch(d, c) ==
    IF d = Free THEN Free
    ELSE [d EXCEPT !.last_run = IF @ = Never THEN Never ELSE Older(@, c.max_backoff),
                   !.started = Older(@, RetryAge(c))]
Aged(q) ==
    [q EXCEPT
        !.age = Older(@, RefillAge(q.config)),
        !.level = Most(@ - q.config.rate, 0),
        !.slots = [i \in DOMAIN @ |-> AgedDispatch(@[i], q.config)]]

Clock ==
    /\ Unlocked
    /\ queues' = [k \in DOMAIN queues |-> Aged(queues[k])]
    /\ UNCHANGED <<order, next_dispatch, requests, ticker, turn, refresh, registrations>>

-----------------------------------------------------------------------------
Next ==
    \/ \E k \in QueueKeys, c \in Configs : register(k, c) \/ RefreshCompares(k, c)
    \/ RefreshRegisters
    \/ \E k \in QueueKeys, n \in Names : enqueue(k, n) \/ remove(k, n)
    \/ tick
    \/ shutdown
    \/ \E r \in requests, delivered \in BOOLEAN : run(r, delivered)
    \/ Clock

Spec == Init /\ [][Next]_vars

(* The ticker loops, a request ends at its deadline if not before, and time *)
(* passes, although never within a tick.                                    *)
Fairness ==
    /\ WF_vars(tick)
    /\ SF_vars(\E r \in requests, delivered \in BOOLEAN : run(r, delivered))
    /\ SF_vars(Clock)

FairSpec == Spec /\ Fairness

-----------------------------------------------------------------------------
(* Properties.                                                              *)

Queue(c) ==
    [config : {c}, pending : Seq(Names), count : Int,
     known : SUBSET Names, queued : SUBSET Names,
     slots : [1 .. c.slots -> Dispatch(c) \cup {Free}],
     open : Seq(1 .. c.slots),
     tokens : 0 .. max_tokens(c), age : 0 .. RefillAge(c),
     born : Nat, level : Nat, ended : SUBSET Names, late : SUBSET Names]

(* Every field has its type; tokens stay between none and max_tokens.       *)
TypeOK ==
    /\ DOMAIN queues \in SUBSET QueueKeys
    /\ \A k \in DOMAIN queues : \E c \in Configs : queues[k] \in Queue(c)
    /\ order \in Seq(DOMAIN queues)
    /\ next_dispatch \in Nat
    /\ requests \in SUBSET [key : DOMAIN queues, id : Nat, attempt : Nat, born : Nat]
    /\ ticker \in BOOLEAN
    /\ turn \in Nat \ {0}
    /\ refresh \in [key : QueueKeys, config : Configs] \cup {Idle}
    /\ registrations \in Nat

EachOpenOnce(q) ==
    /\ \A i, j \in DOMAIN q.open : q.open[i] = q.open[j] => i = j
    /\ {q.open[i] : i \in DOMAIN q.open} = DOMAIN q.slots \ Busy(q)

(* The stack of open slots holds each slot without a dispatch once: no slot *)
(* is leaked, however a dispatch ends, and none is given out twice          *)
(* (dispatch_tasks pops what process pushes).                               *)
SlotsAccounted == \A k \in DOMAIN queues : EachOpenOnce(queues[k])

OwnRequests(k, q, under_way) ==
    \A i \in Busy(q) :
        LET d == q.slots[i]
        IN {r \in under_way : r.id = d.id}
               = IF d.status = "Running" THEN {Request(k, q, d)} ELSE {}

(* A dispatch that runs has one request under way, of its present attempt,  *)
(* and no other dispatch has one: an outcome settles the attempt that it is *)
(* of, even when the queue was replaced and its slots were filled again     *)
(* ("a late response cannot touch a slot that was freed or refilled").      *)
OutcomesAreOwn == \A k \in DOMAIN queues : OwnRequests(k, queues[k], requests)

(* The capacity bounds the pending tasks, except that each task deleted     *)
(* after its dispatch makes room for one more (count is decremented twice). *)
PendingBounded ==
    \A k \in DOMAIN queues :
        Len(queues[k].pending) <= QUEUE_CAPACITY + Cardinality(queues[k].late)

(* No window of time has more dispatches than the rate allows in it, beyond *)
(* one full bucket and what comes in before the next refill, however late   *)
(* or often the ticker runs: level drains at the rate and each dispatch     *)
(* adds a token to it.                                                      *)
Paced ==
    \A k \in DOMAIN queues : LET q == queues[k] IN
        q.level <= max_tokens(q.config) + q.config.rate * (Second - 1)

(* A task that a queue with slots and a positive rate accepted is finished  *)
(* or given up in the end, unless it is deleted, the queue is replaced or   *)
(* the emulator shut down: neither the rate, the backoff, the retries nor   *)
(* other tasks hold it up for ever.                                         *)
EveryTaskEnds ==
    \A k \in QueueKeys, n \in Names :
        []<>~(/\ ticker
              /\ Known(k)
              /\ queues[k].config.slots > 0 /\ queues[k].config.rate > 0
              /\ n \in queues[k].known \ queues[k].ended)

-----------------------------------------------------------------------------
(* The inductive invariant.                                                 *)

(* Where the bucket stands: what was dispatched ahead of the rate, what may *)
(* be dispatched now, and what the next refill brings.                      *)
RateOK(q) ==
    q.level # 0 => q.level + q.tokens + q.config.rate * q.age
                      <= max_tokens(q.config) + q.config.rate * (Second - 1)

(* Dispatch ids are handed out once, whatever becomes of their queue.       *)
IdsOK ==
    /\ \A k \in DOMAIN queues : \A i \in Busy(queues[k]) :
          queues[k].slots[i].id <= next_dispatch
    /\ \A k, l \in DOMAIN queues : \A i \in Busy(queues[k]), j \in Busy(queues[l]) :
          queues[k].slots[i].id = queues[l].slots[j].id => k = l /\ i = j
    /\ \A r \in requests : r.id <= next_dispatch

IInv ==
    /\ TypeOK
    /\ SlotsAccounted
    /\ OutcomesAreOwn
    /\ \A k \in DOMAIN queues : RateOK(queues[k])
    /\ IdsOK
=============================================================================
