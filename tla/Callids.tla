------------------------------- MODULE Callids -------------------------------
(***************************************************************************)
(* The calls of an aggregate as its worker threads serve them: a call that *)
(* carries a call id is looked up in a table, shared by the threads, of    *)
(* the ids served so far, and only an unknown one reaches the driver.      *)
(* The table is a dict behind a lock and is created on first use.          *)
(***************************************************************************)
EXTENDS Integers, Sequences

CONSTANTS
    Threads,       \* workers of the aggregate's server
    Ids,           \* call ids
    None,
    Retries,       \* attempts to get the lock
    PurgeTimeout,  \* how long an id is remembered
    MaxTables,     \* bound: tables created
    MaxCalls,      \* bound: calls the server receives
    MaxTime        \* bound: the clock

ASSUME RetriesAssumption == Retries \in Nat \ {0}
ASSUME TimesAssumption == PurgeTimeout \in Nat \ {0} /\ MaxTime \in Nat
ASSUME CallsAssumption == MaxCalls \in Nat /\ MaxTables \in Nat
ASSUME NoneAssumption == None \notin Nat \cup Ids \cup Threads

VARIABLES
    instance,  \* _call_ids_impl._instance: a table or None
    tables,    \* how many tables were created
    served,    \* each table: when an id was stored, or None
    lock,      \* each table: the thread that has its lock, or None
    pc,
    call,      \* id of the call a thread serves, or None
    mine,      \* the table that Callids() returned to the thread
    tries,     \* the thread's attempts to get the lock
    now,
    calls,
    runs       \* history: the calls that went through to the driver

locals == <<call, mine, tries>>
vars == <<instance, tables, served, lock, pc, locals, now, calls, runs>>

Table == 1 .. MaxTables
Run == [id : Ids, table : Table, at : 0 .. MaxTime, locked : BOOLEAN]

Init ==
    /\ instance = None /\ tables = 0
    /\ served = [t \in Table |-> [i \in Ids |-> None]]
    /\ lock = [t \in Table |-> None]
    /\ pc = [w \in Threads |-> "idle"]
    /\ call = [w \in Threads |-> None]
    /\ mine = [w \in Threads |-> None]
    /\ tries = [w \in Threads |-> 0]
    /\ now = 0 /\ calls = 0 /\ runs = << >>

At(w, label) == pc[w] = label
Goto(w, label) == pc' = [pc EXCEPT ![w] = label]

\* The thread answers its call and forgets it.
Return(w) ==
    /\ Goto(w, "idle")
    /\ call' = [call EXCEPT ![w] = None]
    /\ mine' = [mine EXCEPT ![w] = None]
    /\ tries' = [tries EXCEPT ![w] = 0]

\* The call goes through to the driver, which answers or fails.
Handle(w, locked) ==
    /\ runs' = Append(runs, [id |-> call[w], table |-> mine[w],
                             at |-> now, locked |-> locked])
    /\ Return(w)

\* A method of the aggregate with a call id; one without it is not looked up.
Call(w) ==
    /\ At(w, "idle") /\ calls < MaxCalls
    /\ \E i \in Ids : call' = [call EXCEPT ![w] = i]
    /\ calls' = calls + 1
    /\ Goto(w, "test")
    /\ UNCHANGED <<instance, tables, served, lock, mine, tries, now, runs>>

-----------------------------------------------------------------------------
(* Callids() *)

\* "if not _instance": a dict without an entry is false like None.
Missing(t) == t = None \/ \A i \in Ids : served[t][i] = None

TestInstance(w) ==
    /\ At(w, "test")
    /\ Goto(w, IF Missing(instance) THEN "create" ELSE "fetch")
    /\ UNCHANGED <<instance, tables, served, lock, locals, now, calls, runs>>

CreateInstance(w) ==
    /\ At(w, "create") /\ tables < MaxTables
    /\ tables' = tables + 1
    /\ instance' = tables + 1
    /\ Goto(w, "fetch")
    /\ UNCHANGED <<served, lock, locals, now, calls, runs>>

FetchInstance(w) ==
    /\ At(w, "fetch")
    /\ mine' = [mine EXCEPT ![w] = instance]
    /\ Goto(w, "acquire")
    /\ UNCHANGED <<instance, tables, served, lock, call, tries, now, calls, runs>>

-----------------------------------------------------------------------------
(* already_handled *)

\* Mutation: the lock is taken whether or not it is free.
AcquireAnyway(w) ==
    /\ At(w, "acquire")
    /\ lock' = [lock EXCEPT ![mine[w]] = w]
    /\ Goto(w, "check")
    /\ UNCHANGED <<instance, tables, served, locals, now, calls, runs>>

\* Mutation: one attempt too many is counted.
AcquireOnceMore(w) ==
    /\ At(w, "acquire")
    /\ \/ /\ lock[mine[w]] = None
          /\ lock' = [lock EXCEPT ![mine[w]] = w]
          /\ Goto(w, "check")
          /\ UNCHANGED <<locals, runs>>
       \/ /\ lock[mine[w]] # None /\ tries[w] < Retries
          /\ tries' = [tries EXCEPT ![w] = @ + 1]
          /\ UNCHANGED <<lock, pc, call, mine, runs>>
       \/ /\ lock[mine[w]] # None /\ tries[w] = Retries
          /\ Handle(w, FALSE)
          /\ UNCHANGED lock
    /\ UNCHANGED <<instance, tables, served, now, calls>>

\* The lock is tried a few times; a call that cannot get it goes through.
Acquire(w) ==
    /\ At(w, "acquire")
    /\ \/ /\ lock[mine[w]] = None
          /\ lock' = [lock EXCEPT ![mine[w]] = w]
          /\ Goto(w, "check")
          /\ UNCHANGED <<locals, runs>>
       \/ /\ lock[mine[w]] # None /\ tries[w] + 1 < Retries
          /\ tries' = [tries EXCEPT ![w] = @ + 1]
          /\ UNCHANGED <<lock, pc, call, mine, runs>>
       \/ /\ lock[mine[w]] # None /\ tries[w] + 1 = Retries
          /\ Handle(w, FALSE)
          /\ UNCHANGED lock
    /\ UNCHANGED <<instance, tables, served, now, calls>>

Check(w) ==
    /\ At(w, "check")
    /\ Goto(w, IF served[mine[w]][call[w]] = None THEN "store" ELSE "refuse")
    /\ UNCHANGED <<instance, tables, served, lock, locals, now, calls, runs>>

\* Mutation: the age is compared the wrong way round.
PurgedYoung(entries) ==
    [i \in Ids |-> IF entries[i] # None /\ now - entries[i] < PurgeTimeout
                     THEN None ELSE entries[i]]

\* _purge
Purged(entries) ==
    [i \in Ids |-> IF entries[i] # None /\ now - entries[i] >= PurgeTimeout
                     THEN None ELSE entries[i]]

\* An unknown id is stored and goes through.
Store(w) ==
    /\ At(w, "store")
    /\ served' = [served EXCEPT ![mine[w]] = Purged([@ EXCEPT ![call[w]] = now])]
    /\ lock' = [lock EXCEPT ![mine[w]] = None]
    /\ Handle(w, TRUE)
    /\ UNCHANGED <<instance, tables, now, calls>>

\* Mutation: the lock is kept when the id is known.
RefuseLocked(w) ==
    /\ At(w, "refuse")
    /\ served' = [served EXCEPT ![mine[w]] = Purged(@)]
    /\ Return(w)
    /\ UNCHANGED <<instance, tables, lock, now, calls, runs>>

\* A known id is answered at once, with an empty answer or with True.
Refuse(w) ==
    /\ At(w, "refuse")
    /\ served' = [served EXCEPT ![mine[w]] = Purged(@)]
    /\ lock' = [lock EXCEPT ![mine[w]] = None]
    /\ Return(w)
    /\ UNCHANGED <<instance, tables, now, calls, runs>>

-----------------------------------------------------------------------------
Tick ==
    /\ now < MaxTime
    /\ now' = now + 1
    /\ UNCHANGED <<instance, tables, served, lock, pc, locals, calls, runs>>

Step(w) ==
    \/ TestInstance(w) \/ CreateInstance(w) \/ FetchInstance(w)
    \/ Acquire(w) \/ Check(w) \/ Store(w) \/ Refuse(w)

Next == Tick \/ \E w \in Threads : Call(w) \/ Step(w)

Spec == Init /\ [][Next]_vars

\* A thread that has a call is scheduled until it has answered.
FairSpec == Spec /\ \A w \in Threads : WF_vars(Step(w))

-----------------------------------------------------------------------------
(* Correctness *)

TypeOK ==
    /\ instance \in Table \cup {None}
    /\ tables \in 0 .. MaxTables
    /\ served \in [Table -> [Ids -> (0 .. MaxTime) \cup {None}]]
    /\ lock \in [Table -> Threads \cup {None}]
    /\ pc \in [Threads -> {"idle", "test", "create", "fetch", "acquire",
                           "check", "store", "refuse"}]
    /\ call \in [Threads -> Ids \cup {None}]
    /\ mine \in [Threads -> Table \cup {None}]
    /\ tries \in [Threads -> 0 .. Retries - 1]
    /\ now \in 0 .. MaxTime
    /\ calls \in 0 .. MaxCalls
    /\ runs \in Seq(Run)

\* Runs r and s of one call: the same id less than PurgeTimeout apart, both
\* looked up under the lock.
Repeated(r, s) ==
    r.id = s.id /\ r.locked /\ s.locked /\ s.at - r.at < PurgeTimeout

\* A table lets an id through once: between check and store no other thread
\* gets the lock, and an id is not forgotten before its time.
OncePerTable ==
    \A m, n \in 1 .. Len(runs) :
        m < n /\ Repeated(runs[m], runs[n]) => runs[m].table # runs[n].table

\* What the module promises, "remember the call ids served so far" in a
\* thread-safe singleton: an id goes through once, whatever table was used.
AtMostOnce ==
    \A m, n \in 1 .. Len(runs) : m < n => ~Repeated(runs[m], runs[n])

\* An id that went through under the lock is in its table until it is too old,
\* whatever other calls purged from it meanwhile: a late duplicate is known.
RememberedInTime ==
    \A n \in 1 .. Len(runs) :
        runs[n].locked /\ now < runs[n].at + PurgeTimeout =>
            served[runs[n].table][runs[n].id] = runs[n].at

\* Each lock that is taken is given back, so that looking up an id never turns
\* into waiting out the retries for good.
LockGivenBack ==
    \A w \in Threads, t \in Table : lock[t] = w ~> lock[t] # w

=============================================================================
