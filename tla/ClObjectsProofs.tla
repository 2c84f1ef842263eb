---------------------------- MODULE ClObjectsProofs ----------------------------
(***************************************************************************)
(* Proofs about ClObjects, for any handles, any binaries and any program.  *)
(***************************************************************************)
EXTENDS ClObjects, SequenceTheorems, TLAPS

\* An object that has been made, and may have been released.
Born(o) == life[o] # "new"
Released(S) == \E o \in S : life[o] = "released"

IsMap(f, S) == f = [x \in S |-> f[x]]

\* What ClObjTypeOK leaves open.
ShapeInv ==
  /\ ClObjTypeOK
  /\ unit \in [Device -> UnitType \cup {"STOP"}]
  /\ IsMap(functions, Program) /\ IsMap(fn, Kernel) /\ IsMap(tgx, Queue)
  /\ events \in [Queue -> Seq(Event)]
  /\ of \in [Event -> Kernel \cup Mem \cup {NULL}]
  /\ waiting \subseteq Event
  /\ \A q \in Queue : tgx[q] \in TaskGraph \cup {NULL}
  /\ cxt \in {"none", "live", "deleted"}
  /\ untidy \in Nat

\* A kernel function loaded for a device of the context c.
LoadedFor(entry, c) ==
  entry.device \in Device \cap devices[c] /\ Targets(entry.function) = {unit[entry.device]}

\* Where pointers lead to, whether or not it has been released: whatever has a
\* queue by way of its context has it by way of the context's devices, too.
ContextInv(c) ==
  \A d \in Device \cap devices[c] : Born(d) /\ (queue[c] # NULL => queue[d] # NULL)

ProgramInv(p) ==
  /\ ctx[p] \in Context /\ Born(ctx[p])
  /\ \A path \in DOMAIN functions[p] :
       /\ IsMap(functions[p][path], {"device", "function", "buffers"})
       /\ functions[p][path].function # NULL => LoadedFor(functions[p][path], ctx[p])

KernelInv(k) ==
  /\ program[k] \in Program /\ Born(program[k])
  /\ device[k] \in Device \cap devices[ctx[program[k]]]
  /\ Targets(fn[k].function) = {unit[device[k]]}
  /\ first # NULL

QueueInv(q) ==
  /\ \A e \in ToSet(events[q]) : Born(e)
  /\ tgx[q] # NULL => \A k \in ToSet(tgx[q].kernels) : Born(k)

PointerInv ==
  /\ \A c \in Context : Born(c) => ContextInv(c)
  /\ \A p \in Program : Born(p) => ProgramInv(p)
  /\ \A k \in Kernel : Born(k) => KernelInv(k)
  /\ \A q \in Queue : QueueInv(q)

\* Every kernel, and every buffer the context knows, is in the task graph of some
\* queue; what the graphs, the context and the buffers name has been made.
GraphInv ==
  /\ \A k \in Kernel : Born(k) => \E q \in Queue : Born(q) /\ k \in ToSet(GraphOf(q).kernels)
  /\ \A m \in known \cap Mem : \E q \in Queue : Born(q) /\ m \in GraphOf(q).buffers
  /\ \A k \in known \cap Kernel : Born(k)
  /\ \A q \in Queue : \A m \in GraphOf(q).buffers : Born(m)
  /\ \A m \in Mem : \A k \in users[m] : Born(k)

\* As long as a program is tidy it has one context at most, its pointers lead to
\* live objects, the context's devices have the context's queue, and the context
\* knows its kernels and buffers.
TidyContext(c) ==
  /\ cxt = "live" /\ devices[c] \subseteq Device \cap Live
  /\ \A b \in Context \cap Live : b = c
  /\ queue[c] # NULL => \A d \in devices[c] : queue[d] = queue[c]

TidyQueue(q) == {ctx[q], device[q]} \cup ToSet(events[q]) \subseteq Live
TidyProgram(p) == ctx[p] \in Live /\ queue[ctx[p]] \in Live
TidyKernel(k) == program[k] \in Live /\ device[k] \in Live /\ k \in known
TidyMem(m) == ctx[m] \in Live /\ queue[ctx[m]] \in Live /\ m \in known
TidyEvent(e) == ctx[e] \in Live /\ queue[e] \in Live /\ of[e] \in Live

TidyObjects ==
  /\ \A c \in Context \cap Live : TidyContext(c)
  /\ \A q \in Queue \cap Live : TidyQueue(q)
  /\ \A p \in Program \cap Live : TidyProgram(p)
  /\ \A k \in Kernel \cap Live : TidyKernel(k)
  /\ \A m \in Mem \cap Live : TidyMem(m)
  /\ \A e \in Event \cap Live : TidyEvent(e)

\* The event with id 0 is lost only with a context.
TidyFirst ==
  /\ cxt = "none" => first = NULL
  /\ cxt = "deleted" => Released(Context)
  /\ first # NULL => first \in known \cap Kernel \/ Released(Context)

\* For which reasons a process ends, and a tidy one.
TidyEnd(reason) ==
  \/ reason \in {"running", "null argument"} \cup Asserted
  \/ reason = "not placed" /\ ~ known \subseteq placed
  \/ reason = "no register" /\ Released(Mem)
  \/ reason = "stray kernel" /\ \E q, r \in Queue \ New : q # r
  \/ reason = "no event 0" /\ Released(Context)
  \/ reason = "graph deleted twice" /\ \E q \in Queue \cap Live : tgx[q] # NULL

Blamed(reason) ==
  /\ reason = "null" =>
       \/ \E c \in Context \ New : queue[c] = NULL \/ NULL \in devices[c]
       \/ \E m \in Mem \cap Live : m \notin known
  /\ untidy = 0 => TidyEnd(reason)

\* The inductive invariant.
ClInv ==
  /\ ShapeInv /\ PointerInv /\ GraphInv
  /\ untidy = 0 => TidyObjects /\ TidyFirst
  /\ Blamed(status)

USE DEF Object
-----------------------------------------------------------------------------
\* The kinds of objects are apart.
LEMMA Kinds ==
  /\ Context \cap (Device \cup Queue \cup Program \cup Kernel \cup Mem \cup Event) = {}
  /\ Device \cap (Queue \cup Program \cup Kernel \cup Mem \cup Event) = {}
  /\ Queue \cap (Program \cup Kernel \cup Mem \cup Event) = {}
  /\ Program \cap (Kernel \cup Mem \cup Event) = {}
  /\ Kernel \cap (Mem \cup Event) = {}
  /\ Mem \cap Event = {}
<1> DEFINE kinds == <<Context, Device, Queue, Program, Kernel, Mem, Event>>
<1>1. ASSUME NEW i \in 1 .. 7, NEW j \in 1 .. 7, i # j PROVE kinds[i] \cap kinds[j] = {}
  BY <1>1, HandlesAssumption
<1>2. /\ kinds[1] = Context /\ kinds[2] = Device /\ kinds[3] = Queue /\ kinds[4] = Program
      /\ kinds[5] = Kernel /\ kinds[6] = Mem /\ kinds[7] = Event
  OBVIOUS
<1> HIDE DEF kinds
<1>3. Context \cap (Device \cup Queue \cup Program \cup Kernel \cup Mem \cup Event) = {}
  <2>1. /\ kinds[1] \cap kinds[2] = {} /\ kinds[1] \cap kinds[3] = {}
        /\ kinds[1] \cap kinds[4] = {} /\ kinds[1] \cap kinds[5] = {}
        /\ kinds[1] \cap kinds[6] = {} /\ kinds[1] \cap kinds[7] = {}
    BY <1>1
  <2> QED BY <1>2, <2>1
<1>4. Device \cap (Queue \cup Program \cup Kernel \cup Mem \cup Event) = {}
  <2>1. /\ kinds[2] \cap kinds[3] = {} /\ kinds[2] \cap kinds[4] = {}
        /\ kinds[2] \cap kinds[5] = {} /\ kinds[2] \cap kinds[6] = {}
        /\ kinds[2] \cap kinds[7] = {}
    BY <1>1
  <2> QED BY <1>2, <2>1
<1>5. Queue \cap (Program \cup Kernel \cup Mem \cup Event) = {}
  <2>1. /\ kinds[3] \cap kinds[4] = {} /\ kinds[3] \cap kinds[5] = {}
        /\ kinds[3] \cap kinds[6] = {} /\ kinds[3] \cap kinds[7] = {}
    BY <1>1
  <2> QED BY <1>2, <2>1
<1>6. Program \cap (Kernel \cup Mem \cup Event) = {} /\ Kernel \cap (Mem \cup Event) = {}
      /\ Mem \cap Event = {}
  <2>1. /\ kinds[4] \cap kinds[5] = {} /\ kinds[4] \cap kinds[6] = {}
        /\ kinds[4] \cap kinds[7] = {} /\ kinds[5] \cap kinds[6] = {}
        /\ kinds[5] \cap kinds[7] = {} /\ kinds[6] \cap kinds[7] = {}
    BY <1>1
  <2> QED BY <1>2, <2>1
<1> QED BY <1>3, <1>4, <1>5, <1>6

\* A binary that has been loaded into a new kernel function is its only image.
LEMMA LoadTarget ==
  ASSUME NEW u, NEW path, NEW ok,
         Load(KernelFunctionInit, u, "BINARY", path, ok).result = "SUCCESS"
  PROVE  Targets(Load(KernelFunctionInit, u, "BINARY", path, ok).function) = {u}
<1> DEFINE f == KernelFunctionInit
           e == EnterVersion(f, u, path)
<1>1. u \in Loadable
      /\ Load(f, u, "BINARY", path, ok) = SetLoaded(LoadType(f, u, "BINARY", path, ok))
  BY DEF Load, Fail
<1>2. LoadType(f, u, "BINARY", path, ok).result = "SUCCESS"
  BY <1>1 DEF SetLoaded
<1>3. u # "DCT" /\ LoadType(f, u, "BINARY", path, ok) = LoadBinary(f, u, path, ok)
  BY <1>2 DEF LoadType, LoadHardware
<1>4. LoadBinary(f, u, path, ok).function = EnterSize(e, u)
  BY <1>2, <1>3 DEF LoadBinary, Fail
<1> DEFINE v == Assign(Empty, u, path)
           z == Assign(Empty, u, ImageSize(u))
<1>5. e = [loaded |-> FALSE, version |-> v, size |-> Empty]
  <2>1. f.version = Empty /\ e = [f EXCEPT !.version = v]
    BY DEF EnterVersion, KernelFunctionInit
  <2> HIDE DEF v, e
  <2> QED BY <2>1 DEF KernelFunctionInit
<1>6. EnterSize(e, u) = [loaded |-> FALSE, version |-> v, size |-> z]
  <2>1. e.size = Empty
    BY <1>5
  <2>2. EnterSize(e, u) = [e EXCEPT !.size = z]
    BY <2>1 DEF EnterSize
  <2> HIDE DEF v, z, e
  <2> QED BY <1>5, <2>2
<1>7. Load(f, u, "BINARY", path, ok).function.size = z
  BY <1>1, <1>3, <1>4, <1>6 DEF SetLoaded
<1>8. DOMAIN Assign(Empty, u, ImageSize(u)) = {u}
  BY DEF Assign, Empty
<1> QED BY <1>7, <1>8 DEF Targets

\* A sequence without repetitions gets one more element.
LEMMA AppendNew ==
  ASSUME NEW S, NEW s \in Seq(S), NEW x \in S, x \notin ToSet(s), IsInjective(s)
  PROVE  /\ Append(s, x) \in Seq(S) /\ IsInjective(Append(s, x))
         /\ ToSet(Append(s, x)) = ToSet(s) \cup {x}
<1> DEFINE t == Append(s, x)
           n == Len(s)
<1>1. /\ n \in Nat /\ DOMAIN s = 1 .. n
      /\ t \in Seq(S) /\ Len(t) = n + 1 /\ DOMAIN t = 1 .. n + 1
      /\ t[n + 1] = x /\ \A i \in 1 .. n : t[i] = s[i]
  BY AppendProperties, LenProperties
<1> HIDE DEF t, n
<1>2. \A i \in 1 .. n + 1 : i \in 1 .. n \/ i = n + 1
  BY <1>1
<1>3. \A i \in 1 .. n : i \in 1 .. n + 1 /\ s[i] # x
  BY <1>1 DEF ToSet
<1>4. ToSet(t) = ToSet(s) \cup {x}
  <2>1. n + 1 \in 1 .. n + 1
    BY <1>1
  <2> QED BY <1>1, <1>2, <1>3, <2>1 DEF ToSet
<1>5. IsInjective(t)
  <2> SUFFICES ASSUME NEW i \in 1 .. n + 1, NEW j \in 1 .. n + 1, t[i] = t[j] PROVE i = j
    BY <1>1 DEF IsInjective
  <2>1. CASE i \in 1 .. n /\ j \in 1 .. n
    BY <1>1, <2>1 DEF IsInjective
  <2>2. CASE i = n + 1 \/ j = n + 1
    BY <1>1, <1>2, <1>3, <2>2
  <2> QED BY <1>2, <2>1, <2>2
<1> QED BY <1>1, <1>4, <1>5 DEF t

\* Objects that are made and released.
LEMMA CreateFacts ==
  ASSUME life \in [Object -> {"new", "live", "released"}], NEW o \in New, Create(o)
  PROVE  /\ life' \in [Object -> {"new", "live", "released"}]
         /\ \A x : x # o => life'[x] = life[x]
         /\ life'[o] = "live" /\ ~ Born(o) /\ o \notin Live
         /\ Live' = Live \cup {o} /\ New' = New \ {o}
         /\ \A x : Born(x) => Born(x)'
         /\ \A x : Born(x)' => Born(x) \/ x = o
BY DEF Create, New, Live, Born

LEMMA ReleaseFacts ==
  ASSUME life \in [Object -> {"new", "live", "released"}], NEW o \in Live, Release(o)
  PROVE  /\ life' \in [Object -> {"new", "live", "released"}]
         /\ Live' = Live \ {o} /\ New' = New /\ life'[o] = "released"
         /\ \A x : Born(x)' <=> Born(x)
BY DEF Release, New, Live, Born

\* Objects that are live, and NULL.
LEMMA LiveFacts ==
  /\ NULL \notin Object /\ NULL \notin Live /\ Live \subseteq Object
  /\ \A o \in Live : Born(o)
  /\ \A o \in Object : o \notin New <=> Born(o)
BY HandlesAssumption DEF Live, New, Born
-----------------------------------------------------------------------------
\* No object has been made, except of a context before.
LEMMA ClInitInv == Init => ClInv
<1> SUFFICES ASSUME NEW past \in Context \cup {NULL}, InitAfter(past) PROVE ClInv
  BY DEF Init
<1>0. life = [o \in Object |-> IF o = past THEN "released" ELSE "new"]
  BY DEF InitAfter
<1>1. \A o \in Object : Born(o) => (o = past /\ past \in Context)
  <2> SUFFICES ASSUME NEW o \in Object, Born(o) PROVE o = past /\ past \in Context
    OBVIOUS
  <2>1. o = past
    BY <1>0 DEF Born
  <2>2. o # NULL
    BY LiveFacts
  <2> QED BY <2>1, <2>2
<1> USE DEF InitAfter
<1>2. Live = {}
  BY DEF Live
<1>3. ClObjTypeOK
  <2>1. life \in [Object -> {"new", "live", "released"}]
    OBVIOUS
  <2>2. \A d \in Device : life[d] # "new" => unit[d] \in UnitType
    BY <1>1, Kinds DEF Born
  <2>3. \A q \in Queue : ToSet(events[q]) \subseteq Event /\ IsInjective(events[q])
    BY DEF ToSet, IsInjective
  <2>4. /\ devices \in [Context -> SUBSET Device]
        /\ queue \in [Context \cup Device \cup Event -> Queue \cup {NULL}]
        /\ ctx \in [UNION {Queue, Program, Mem, Event} -> Context \cup {NULL}]
        /\ device \in [Queue \cup Kernel -> Device \cup {NULL}]
        /\ program \in [Kernel -> Program \cup {NULL}]
        /\ users \in [Mem -> SUBSET Kernel]
    OBVIOUS
  <2> QED BY <2>1, <2>2, <2>3, <2>4 DEF ClObjTypeOK
<1>4. ShapeInv
  BY <1>3 DEF ShapeInv, IsMap
<1>5. PointerInv
  <2>1. \A c \in Context : devices[c] = {}
    OBVIOUS
  <2>2. \A q \in Queue : QueueInv(q)
    BY DEF QueueInv, ToSet
  <2>3. \A x \in Program \cup Kernel : ~ Born(x)
    BY <1>1, Kinds
  <2> QED BY <2>1, <2>2, <2>3 DEF PointerInv, ContextInv
<1>6. GraphInv /\ Blamed(status)
  <2>1. \A k \in Kernel : ~ Born(k)
    BY <1>1, Kinds
  <2> QED BY <2>1 DEF GraphInv, GraphOf, NoGraph, Blamed, TidyEnd
<1>7. TidyObjects
  BY <1>2 DEF TidyObjects
<1>8. TidyFirst
  BY DEF TidyFirst, Released
<1> QED BY <1>4, <1>5, <1>6, <1>7, <1>8 DEF ClInv

\* The end of the process.
LEMMA CrashInv ==
  ASSUME ClInv, NEW reason, Crash(reason), Blamed(reason)
  PROVE  ClInv'
<1>1. /\ UNCHANGED <<life, devices, queue, ctx, device, program>>
      /\ UNCHANGED <<unit, functions, fn, users, events, of, waiting>>
      /\ UNCHANGED <<cxt, known, first, placed, tgx, untidy>>
      /\ status' = reason
  BY DEF Crash, pointers, content, host
<1>2. ShapeInv'
  BY <1>1 DEF ClInv, ShapeInv, ClObjTypeOK, IsMap
<1>3. PointerInv'
  BY <1>1 DEF ClInv, PointerInv, ContextInv, ProgramInv, LoadedFor, KernelInv, QueueInv, Born
<1>4. GraphInv'
  BY <1>1 DEF ClInv, GraphInv, Born, GraphOf
<1>5. untidy' = 0 => TidyObjects' /\ TidyFirst'
  BY <1>1 DEF ClInv, TidyObjects, TidyContext, TidyQueue, TidyProgram, TidyKernel, TidyMem,
     TidyEvent, TidyFirst, Released, Live
<1>6. Blamed(status)'
  BY <1>1 DEF Blamed, TidyEnd, New, Live, Released
<1> QED BY <1>2, <1>3, <1>4, <1>5, <1>6 DEF ClInv
-----------------------------------------------------------------------------
(***************************************************************************)
(* What a step preserves that changes no pointer of an object that was     *)
(* there before.                                                           *)
(***************************************************************************)
\* Pointers of programs, kernels and queues.
LEMMA PointerFrame ==
  ASSUME ShapeInv, PointerInv,
         \A x : Born(x) => Born(x)',
         \A c \in Context : Born(c) => devices'[c] = devices[c],
         \A d \in Device : Born(d) => unit'[d] = unit[d],
         \A p \in Program : Born(p) => ctx'[p] = ctx[p],
         \A k \in Kernel : Born(k) =>
           program'[k] = program[k] /\ device'[k] = device[k] /\ fn'[k] = fn[k],
         first # NULL => first' # NULL
  PROVE  /\ \A p \in Program : Born(p) /\ functions'[p] = functions[p] => ProgramInv(p)'
         /\ \A k \in Kernel : Born(k) => KernelInv(k)'
         /\ \A q \in Queue : events'[q] = events[q] /\ tgx'[q] = tgx[q] => QueueInv(q)'
         /\ \A c \in Context : /\ Born(c) /\ queue'[c] = queue[c]
                               /\ \A d \in Device : Born(d) => queue'[d] = queue[d]
                               => ContextInv(c)'
<1>2. \A c \in Context : Born(c) => \A d \in Device \cap devices[c] :
        Born(d) /\ unit'[d] = unit[d]
  BY DEF PointerInv, ContextInv
<1>3. ASSUME NEW p \in Program, Born(p)
      PROVE  /\ ctx'[p] = ctx[p] /\ ctx[p] \in Context /\ Born(ctx[p]) /\ Born(ctx[p])'
             /\ devices'[ctx[p]] = devices[ctx[p]]
             /\ \A path \in DOMAIN functions[p] :
                  functions[p][path].function # NULL => LoadedFor(functions[p][path], ctx[p])
  BY <1>3 DEF PointerInv, ProgramInv
<1>4. ASSUME NEW p \in Program, Born(p), functions'[p] = functions[p] PROVE ProgramInv(p)'
  <2>1. ASSUME NEW path \in DOMAIN functions[p]
        PROVE  IsMap(functions[p][path], {"device", "function", "buffers"})
    BY <1>4 DEF PointerInv, ProgramInv
  <2>2. ASSUME NEW path \in DOMAIN functions[p], functions[p][path].function # NULL
        PROVE  LoadedFor(functions[p][path], ctx[p])'
    <3> DEFINE g == functions[p][path]
    <3>1. LoadedFor(g, ctx[p])
      BY <1>3, <1>4, <2>2
    <3>2. g.device \in Device \cap devices'[ctx[p]] /\ unit'[g.device] = unit[g.device]
      BY <1>2, <1>3, <1>4, <3>1 DEF LoadedFor
    <3>3. functions'[p][path] = g /\ ctx'[p] = ctx[p]
      BY <1>3, <1>4
    <3> HIDE DEF g
    <3> QED BY <3>1, <3>2, <3>3 DEF LoadedFor
  <2> QED BY <1>3, <1>4, <2>1, <2>2 DEF ProgramInv, IsMap
<1>5. ASSUME NEW k \in Kernel, Born(k) PROVE KernelInv(k)'
  <2>1. KernelInv(k)
    BY <1>5 DEF PointerInv
  <2>2. /\ program'[k] = program[k] /\ device'[k] = device[k] /\ fn'[k] = fn[k]
        /\ program[k] \in Program /\ Born(program[k])
    BY <1>5, <2>1 DEF KernelInv
  <2>3. /\ ctx'[program[k]] = ctx[program[k]] /\ ctx[program[k]] \in Context
        /\ devices'[ctx[program[k]]] = devices[ctx[program[k]]]
        /\ Born(ctx[program[k]])
    BY <1>3, <2>2
  <2>4. unit'[device[k]] = unit[device[k]]
    BY <1>2, <2>1, <2>3 DEF KernelInv
  <2> QED BY <2>1, <2>2, <2>3, <2>4 DEF KernelInv
<1>6. ASSUME NEW q \in Queue, events'[q] = events[q], tgx'[q] = tgx[q] PROVE QueueInv(q)'
  BY <1>6 DEF PointerInv, QueueInv
<1>7. ASSUME NEW c \in Context, Born(c), queue'[c] = queue[c],
             \A d \in Device : Born(d) => queue'[d] = queue[d]
      PROVE  ContextInv(c)'
  BY <1>2, <1>7 DEF PointerInv, ContextInv
<1> QED BY <1>4, <1>5, <1>6, <1>7

\* A tidy program's live objects, when there are more of them.
LEMMA TidyGrowth ==
  ASSUME ShapeInv, TidyObjects, Live \subseteq Live', cxt' = cxt, known \subseteq known',
         Context \cap Live' = Context \cap Live,
         \A c \in Context \cap Live : devices'[c] = devices[c],
         \A x \in (Queue \cup Program \cup Mem \cup Event) \cap Live : ctx'[x] = ctx[x],
         \A x \in (Queue \cup Kernel) \cap Live : device'[x] = device[x],
         \A x \in (Context \cup Device \cup Event) \cap Live : queue'[x] = queue[x],
         \A k \in Kernel \cap Live : program'[k] = program[k],
         \A e \in Event \cap Live : of'[e] = of[e],
         \A q \in Queue \cap Live : ToSet(events'[q]) \subseteq Live'
  PROVE  /\ \A c \in Context \cap Live : TidyContext(c)'
         /\ \A q \in Queue \cap Live : TidyQueue(q)'
         /\ \A p \in Program \cap Live : TidyProgram(p)'
         /\ \A k \in Kernel \cap Live : TidyKernel(k)'
         /\ \A m \in Mem \cap Live : TidyMem(m)'
         /\ \A e \in Event \cap Live : TidyEvent(e)'
<1>1. ASSUME NEW x \in (Queue \cup Program \cup Mem \cup Event) \cap Live, ctx[x] \in Live
      PROVE  ctx[x] \in Context \cap Live /\ queue'[ctx[x]] = queue[ctx[x]]
  <2>1. ctx[x] \in Context \cup {NULL}
    BY DEF ShapeInv, ClObjTypeOK
  <2> QED BY <1>1, <2>1, LiveFacts
<1>2. ASSUME NEW c \in Context \cap Live PROVE TidyContext(c)'
  <2>1. TidyContext(c)
    BY DEF TidyObjects
  <2>3. \A d \in devices[c] : queue'[d] = queue[d]
    BY <2>1 DEF TidyContext
  <2> QED BY <2>1, <2>3 DEF TidyContext
<1>3. ASSUME NEW q \in Queue \cap Live PROVE TidyQueue(q)'
  BY DEF TidyObjects, TidyQueue
<1>4. ASSUME NEW p \in Program \cap Live PROVE TidyProgram(p)'
  BY <1>1 DEF TidyObjects, TidyProgram
<1>5. ASSUME NEW k \in Kernel \cap Live PROVE TidyKernel(k)'
  BY DEF TidyObjects, TidyKernel
<1>6. ASSUME NEW m \in Mem \cap Live PROVE TidyMem(m)'
  BY <1>1 DEF TidyObjects, TidyMem
<1>7. ASSUME NEW e \in Event \cap Live PROVE TidyEvent(e)'
  BY DEF TidyObjects, TidyEvent
<1> QED BY <1>2, <1>3, <1>4, <1>5, <1>6, <1>7

\* The fields that MadeFrom names.
LEMMA MadeFromFacts ==
  /\ \A x \in Context : MadeFrom(x) = devices[x]
  /\ \A x \in Queue : MadeFrom(x) = {ctx[x], device[x]} \cup ToSet(events[x])
  /\ \A x \in Program \cup Mem : MadeFrom(x) = {ctx[x], queue[ctx[x]]}
  /\ \A x \in Kernel : MadeFrom(x) = {program[x], device[x]}
  /\ \A x \in Event : MadeFrom(x) = {ctx[x], queue[x], of[x]}
<1>1. ASSUME NEW x \in Context PROVE MadeFrom(x) = devices[x]
  <2>1. /\ x \notin Queue /\ x \notin Program /\ x \notin Kernel
        /\ x \notin Mem /\ x \notin Event
    BY Kinds
  <2> QED BY <2>1 DEF MadeFrom
<1>2. ASSUME NEW x \in Queue PROVE MadeFrom(x) = {ctx[x], device[x]} \cup ToSet(events[x])
  <2>1. /\ x \notin Context /\ x \notin Program /\ x \notin Kernel
        /\ x \notin Mem /\ x \notin Event
    BY Kinds
  <2> QED BY <2>1 DEF MadeFrom
<1>3. ASSUME NEW x \in Program PROVE MadeFrom(x) = {ctx[x], queue[ctx[x]]}
  <2>1. /\ x \notin Context /\ x \notin Queue /\ x \notin Kernel
        /\ x \notin Mem /\ x \notin Event
    BY Kinds
  <2> QED BY <2>1 DEF MadeFrom
<1>4. ASSUME NEW x \in Kernel PROVE MadeFrom(x) = {program[x], device[x]}
  <2>1. /\ x \notin Context /\ x \notin Queue /\ x \notin Program
        /\ x \notin Mem /\ x \notin Event
    BY Kinds
  <2> QED BY <2>1 DEF MadeFrom
<1>5. ASSUME NEW x \in Mem PROVE MadeFrom(x) = {ctx[x], queue[ctx[x]]}
  <2>1. /\ x \notin Context /\ x \notin Queue /\ x \notin Program
        /\ x \notin Kernel /\ x \notin Event
    BY Kinds
  <2> QED BY <2>1 DEF MadeFrom
<1>6. ASSUME NEW x \in Event PROVE MadeFrom(x) = {ctx[x], queue[x], of[x]}
  <2>1. /\ x \notin Context /\ x \notin Queue /\ x \notin Program
        /\ x \notin Kernel /\ x \notin Mem
    BY Kinds
  <2> QED BY <2>1 DEF MadeFrom
<1> QED BY <1>1, <1>2, <1>3, <1>4, <1>5, <1>6

\* A tidy program's live objects, when one of them that no other was made from
\* is released and only known may change besides.
LEMMA TidyShrink ==
  ASSUME TidyObjects, NEW o \in Live, \A x \in Live : o \notin MadeFrom(x),
         Live' = Live \ {o}, known \ {o} \subseteq known',
         UNCHANGED <<devices, queue, ctx, device, program, events, of>>
  PROVE  /\ cxt' = cxt => \A c \in Context \cap Live' : TidyContext(c)'
         /\ \A q \in Queue \cap Live' : TidyQueue(q)'
         /\ \A p \in Program \cap Live' : TidyProgram(p)'
         /\ \A k \in Kernel \cap Live' : TidyKernel(k)'
         /\ \A m \in Mem \cap Live' : TidyMem(m)'
         /\ \A e \in Event \cap Live' : TidyEvent(e)'
<1>1. \A x \in Live' : x \in Live /\ x # o /\ o \notin MadeFrom(x)
  OBVIOUS
<1>2. ASSUME cxt' = cxt, NEW c \in Context \cap Live' PROVE TidyContext(c)'
  BY <1>1, <1>2, MadeFromFacts DEF TidyObjects, TidyContext
<1>3. ASSUME NEW q \in Queue \cap Live' PROVE TidyQueue(q)'
  BY <1>1, <1>3, MadeFromFacts DEF TidyObjects, TidyQueue
<1>4. ASSUME NEW p \in Program \cap Live' PROVE TidyProgram(p)'
  BY <1>1, <1>4, MadeFromFacts DEF TidyObjects, TidyProgram
<1>5. ASSUME NEW k \in Kernel \cap Live' PROVE TidyKernel(k)'
  BY <1>1, <1>5, MadeFromFacts DEF TidyObjects, TidyKernel
<1>6. ASSUME NEW m \in Mem \cap Live' PROVE TidyMem(m)'
  BY <1>1, <1>6, MadeFromFacts DEF TidyObjects, TidyMem
<1>7. ASSUME NEW e \in Event \cap Live' PROVE TidyEvent(e)'
  BY <1>1, <1>7, MadeFromFacts DEF TidyObjects, TidyEvent
<1> QED BY <1>2, <1>3, <1>4, <1>5, <1>6, <1>7

\* Where the pointers of a tidy program's live objects lead to.
LEMMA TidyFacts ==
  ASSUME ClInv, untidy = 0
  PROVE  /\ \A c \in Context \cap Live : cxt = "live" /\ devices[c] \subseteq Device \cap Live
         /\ \A q \in Queue \cap Live :
              ctx[q] \in Context \cap Live /\ ToSet(events[q]) \subseteq Live
         /\ \A p \in Program \cap Live :
              /\ ctx[p] \in Context \cap Live /\ queue[ctx[p]] \in Queue \cap Live
              /\ \A d \in devices[ctx[p]] : d \in Live /\ queue[d] = queue[ctx[p]]
         /\ \A k \in Kernel \cap Live :
              /\ program[k] \in Program \cap Live /\ k \in known /\ device[k] \in Live
              /\ queue[device[k]] \in Queue \cap Live
         /\ \A m \in Mem \cap Live : ctx[m] \in Context \cap Live /\ m \in known
         /\ \A e \in Event \cap Live : ctx[e] \in Context \cap Live /\ of[e] \in known
<1> USE DEF ClInv, ShapeInv, ClObjTypeOK
<1>1. \A c \in Context \cap Live : TidyContext(c) /\ devices[c] \subseteq Device
  BY DEF TidyObjects, TidyContext
<1>2. \A x \in Queue \cup Program \cup Mem \cup Event :
        ctx[x] \in Live => ctx[x] \in Context \cap Live
  BY LiveFacts
<1>3. \A x \in Context \cup Device \cup Event :
        queue[x] \in Live => queue[x] \in Queue \cap Live
  BY LiveFacts
<1>4. ASSUME NEW p \in Program \cap Live
      PROVE  /\ ctx[p] \in Context \cap Live /\ queue[ctx[p]] \in Queue \cap Live
             /\ \A d \in devices[ctx[p]] : d \in Live /\ queue[d] = queue[ctx[p]]
  <2>1. ctx[p] \in Context \cap Live /\ queue[ctx[p]] \in Live
    BY <1>2 DEF TidyObjects, TidyProgram
  <2>2. queue[ctx[p]] \in Queue \cap Live /\ queue[ctx[p]] # NULL
    BY <1>3, <2>1, LiveFacts
  <2> QED BY <1>1, <2>1, <2>2 DEF TidyContext
<1>5. ASSUME NEW k \in Kernel \cap Live
      PROVE  /\ program[k] \in Program \cap Live /\ k \in known /\ device[k] \in Live
             /\ queue[device[k]] \in Queue \cap Live
  <2>1. TidyKernel(k) /\ KernelInv(k)
    BY LiveFacts DEF TidyObjects, PointerInv
  <2>2. program[k] \in Program \cap Live /\ device[k] \in devices[ctx[program[k]]]
    BY <2>1 DEF TidyKernel, KernelInv
  <2> QED BY <1>4, <2>1, <2>2 DEF TidyKernel
<1>6. \A q \in Queue \cap Live : ctx[q] \in Context \cap Live /\ ToSet(events[q]) \subseteq Live
  BY <1>2 DEF TidyObjects, TidyQueue
<1>7. \A m \in Mem \cap Live : ctx[m] \in Context \cap Live /\ m \in known
  BY <1>2 DEF TidyObjects, TidyMem
<1>8. \A e \in Event \cap Live : ctx[e] \in Context \cap Live /\ of[e] \in known
  <2> SUFFICES ASSUME NEW e \in Event \cap Live
               PROVE  ctx[e] \in Context \cap Live /\ of[e] \in known
    OBVIOUS
  <2>1. ctx[e] \in Context \cap Live /\ of[e] \in Live
    BY <1>2 DEF TidyObjects, TidyEvent
  <2>2. of[e] \in Kernel \cup Mem
    BY <2>1, LiveFacts
  <2> QED BY <1>5, <1>7, <2>1, <2>2
<1> QED BY <1>1, <1>4, <1>5, <1>6, <1>7, <1>8 DEF TidyContext

\* A process that has not ended is nobody's fault.
LEMMA StillRunning ==
  ASSUME Running, status' = status PROVE Blamed(status)' /\ Blamed(status)
BY DEF Running, Blamed, TidyEnd

\* A history that is tidy was tidy before, and so is the call.
LEMMA TidyCall ==
  ASSUME untidy \in Nat, NEW call \in BOOLEAN, Tidy(call)
  PROVE  untidy' \in Nat /\ (untidy' = 0 => untidy = 0 /\ call)
BY DEF Tidy
-----------------------------------------------------------------------------
(***************************************************************************)
(* The calls that delete.                                                  *)
(***************************************************************************)
\* An object is released: the pointers to it stay, but in a tidy program they
\* are those of released objects.
LEMMA ReleaseInv ==
  ASSUME ClInv, Running, NEW o \in Live, Release(o),
         UNCHANGED <<pointers, content, first, placed, tgx, status>>,
         known' \subseteq known, known \ {o} \subseteq known',
         known \cap Kernel \subseteq known',
         cxt' = cxt \/ (cxt' = "deleted" /\ o \in Context)
  PROVE  ClInv'
<1>1. /\ UNCHANGED <<devices, queue, ctx, device, program>>
      /\ UNCHANGED <<unit, functions, fn, users, events, of, waiting>>
      /\ UNCHANGED <<first, placed, tgx, status>>
  BY DEF pointers, content
<1>2. /\ life' \in [Object -> {"new", "live", "released"}]
      /\ Live' = Live \ {o} /\ New' = New /\ life'[o] = "released"
      /\ \A x : Born(x)' <=> Born(x)
  BY ReleaseFacts DEF ClInv, ShapeInv, ClObjTypeOK
<1>3. untidy \in Nat /\ untidy' \in Nat
      /\ (untidy' = 0 => untidy = 0 /\ \A x \in Live : o \notin MadeFrom(x))
  <2>1. (\A x \in Live : o \notin MadeFrom(x)) \in BOOLEAN
    OBVIOUS
  <2>2. untidy \in Nat /\ Tidy(\A x \in Live : o \notin MadeFrom(x))
    BY DEF ClInv, ShapeInv, Release
  <2> QED BY <2>1, <2>2, TidyCall
<1>4. ShapeInv'
  <2>1. \A d \in Device : life'[d] # "new" => unit'[d] \in UnitType
    BY <1>1, <1>2 DEF ClInv, ShapeInv, ClObjTypeOK, Born
  <2>2. ClObjTypeOK'
    BY <1>1, <1>2, <2>1 DEF ClInv, ShapeInv, ClObjTypeOK
  <2> QED BY <1>1, <1>3, <2>2 DEF ClInv, ShapeInv, IsMap
<1>5. PointerInv'
  BY <1>1, <1>2 DEF ClInv, PointerInv, ContextInv, ProgramInv, IsMap, LoadedFor, KernelInv,
     QueueInv
<1>6. GraphInv'
  BY <1>1, <1>2 DEF ClInv, GraphInv, GraphOf
<1>7. ASSUME untidy' = 0 PROVE TidyObjects' /\ TidyFirst'
  <2>1. TidyObjects /\ TidyFirst /\ \A x \in Live : o \notin MadeFrom(x)
    BY <1>3, <1>7 DEF ClInv
  <2>2. /\ cxt' = cxt => \A c \in Context \cap Live' : TidyContext(c)'
        /\ \A q \in Queue \cap Live' : TidyQueue(q)'
        /\ \A p \in Program \cap Live' : TidyProgram(p)'
        /\ \A k \in Kernel \cap Live' : TidyKernel(k)'
        /\ \A m \in Mem \cap Live' : TidyMem(m)'
        /\ \A e \in Event \cap Live' : TidyEvent(e)'
    BY <1>1, <1>2, <2>1, TidyShrink
  <2>3. ASSUME cxt' # cxt, NEW c \in Context \cap Live' PROVE FALSE
    BY <1>2, <2>1, <2>3 DEF TidyObjects, TidyContext
  <2>4. TidyObjects'
    BY <2>2, <2>3 DEF TidyObjects
  <2>5. Released(Context) => Released(Context)'
    BY DEF Released, Release
  <2>6. cxt' # cxt => Released(Context)'
    BY <1>2 DEF Released
  <2>7. TidyFirst'
    BY <1>1, <2>1, <2>5, <2>6 DEF TidyFirst
  <2> QED BY <2>4, <2>7
<1> QED BY <1>1, <1>4, <1>5, <1>6, <1>7, StillRunning DEF ClInv

\* clReleaseDevice, clReleaseProgram, clReleaseKernel and clReleaseEvent.
LEMMA DeleteInv ==
  ASSUME ClInv, Running, NEW o \in Live, Delete(o) PROVE ClInv'
<1>1. UNCHANGED <<pointers, content, first, placed, tgx, status>> /\ UNCHANGED <<known, cxt>>
  BY DEF Delete, host
<1> QED BY <1>1, ReleaseInv DEF Delete

\* clReleaseContext: a second deletion of the global context follows the
\* creation of a second context, which is not tidy.
LEMMA ReleaseContextInv ==
  ASSUME ClInv, Running, NEW c \in Context \cap Live, ReleaseContext(c) PROVE ClInv'
<1>1. CASE cxt = "deleted" /\ Crash("double delete")
  <2>1. untidy # 0
    BY <1>1, TidyFacts
  <2>2. Blamed("double delete")
    BY <2>1 DEF Blamed
  <2> QED BY <1>1, <2>2, CrashInv
<1>2. CASE /\ cxt' = "deleted" /\ Release(c)
           /\ UNCHANGED <<pointers, content, known, first, placed, tgx, status>>
  BY <1>2, ReleaseInv
<1> QED BY <1>1, <1>2 DEF ReleaseContext

\* clReleaseCommandQueue
LEMMA ReleaseCommandQueueInv ==
  ASSUME ClInv, Running, NEW q \in Queue \cap Live, ReleaseCommandQueue(q) PROVE ClInv'
<1>1. CASE \/ Crash("no graph")
           \/ tgx[q] # NULL /\ Crash("graph deleted twice")
  BY <1>1, CrashInv DEF Blamed, TidyEnd, Asserted
<1>2. CASE cxt = "deleted" /\ Crash("stale")
  <2>1. untidy # 0
    BY <1>2, TidyFacts
  <2>2. Blamed("stale")
    BY <2>1 DEF Blamed
  <2> QED BY <1>2, <2>2, CrashInv
<1>3. CASE Release(q) /\ UNCHANGED <<pointers, content, host, status>>
  BY <1>3, ReleaseInv DEF host
<1> QED BY <1>1, <1>2, <1>3 DEF ReleaseCommandQueue, InContext

\* clReleaseMemObject: only the creation of another context makes a buffer
\* unknown that has not been released.
LEMMA ReleaseMemObjectInv ==
  ASSUME ClInv, Running, NEW m \in Mem \cap Live, ReleaseMemObject(m) PROVE ClInv'
<1>1. CASE cxt = "deleted" /\ Crash("stale")
  <2>1. untidy # 0
    BY <1>1, TidyFacts
  <2>2. Blamed("stale")
    BY <2>1 DEF Blamed
  <2> QED BY <1>1, <2>2, CrashInv
<1>2. CASE m \notin known /\ Crash("null")
  <2>1. untidy # 0
    BY <1>2, TidyFacts
  <2>2. Blamed("null")
    BY <1>2, <2>1 DEF Blamed
  <2> QED BY <1>2, <2>2, CrashInv
<1>3. CASE /\ Release(m) /\ known' = known \ {m}
           /\ UNCHANGED <<pointers, content, cxt, first, placed, tgx, status>>
  <2>1. m \notin Kernel
    BY Kinds
  <2> QED BY <1>3, <2>1, ReleaseInv
<1> QED BY <1>1, <1>2, <1>3 DEF ReleaseMemObject, InContext
-----------------------------------------------------------------------------
(***************************************************************************)
(* The calls that create.                                                  *)
(***************************************************************************)
\* A context that has been released stays so.
LEMMA ReleasedStays ==
  ASSUME NEW o \in New, Create(o), NEW S, Released(S) PROVE Released(S)'
BY DEF Released, Create, New

\* clGetDeviceIDs: nothing leads to the new device.
LEMMA GetDeviceIDsInv ==
  ASSUME ClInv, Running, NEW type, NEW d \in Device \cap New,
         NEW u \in getAvailableDevicesByType(type), GetDeviceIDs(type, d, u)
  PROVE  ClInv'
<1>1. /\ unit' = [unit EXCEPT ![d] = u] /\ queue' = [queue EXCEPT ![d] = NULL]
      /\ UNCHANGED <<devices, ctx, device, program, functions, fn, users, events, of, waiting>>
      /\ UNCHANGED <<cxt, known, first, placed, tgx, status, untidy>>
  BY DEF GetDeviceIDs, host
<1>2. /\ life' \in [Object -> {"new", "live", "released"}]
      /\ \A x : x # d => life'[x] = life[x]
      /\ life'[d] = "live" /\ ~ Born(d) /\ d \notin Live
      /\ Live' = Live \cup {d} /\ New' = New \ {d}
      /\ \A x : Born(x) => Born(x)'
      /\ \A x : Born(x)' => Born(x) \/ x = d
  BY CreateFacts DEF GetDeviceIDs, ClInv, ShapeInv, ClObjTypeOK
<1>3. u \in UnitType
  BY DEF getAvailableDevicesByType, availableUnits, UnitType, ToSet
<1>4. d \notin Context \cup Queue \cup Program \cup Kernel \cup Mem \cup Event
  BY Kinds
<1>5. ShapeInv'
  <2>1. unit' \in [Device -> UnitType \cup {"STOP"}]
    BY <1>1, <1>3 DEF ClInv, ShapeInv
  <2>2. \A e \in Device : life'[e] # "new" => unit'[e] \in UnitType
    BY <1>1, <1>2, <1>3 DEF ClInv, ShapeInv, ClObjTypeOK
  <2>3. queue' \in [Context \cup Device \cup Event -> Queue \cup {NULL}]
    BY <1>1 DEF ClInv, ShapeInv, ClObjTypeOK
  <2>4. ClObjTypeOK'
    BY <1>1, <1>2, <2>2, <2>3 DEF ClInv, ShapeInv, ClObjTypeOK
  <2> QED BY <1>1, <2>1, <2>4 DEF ClInv, ShapeInv, IsMap
<1>6. /\ \A x \in Context \cup Device \cup Event : x # d => queue'[x] = queue[x]
      /\ \A x \in Device : x # d => unit'[x] = unit[x]
  BY <1>1 DEF ClInv, ShapeInv, ClObjTypeOK
<1>7. PointerInv'
  <2>1. /\ ShapeInv /\ PointerInv
        /\ \A e \in Device : Born(e) => unit'[e] = unit[e] /\ queue'[e] = queue[e]
        /\ \A c \in Context : queue'[c] = queue[c]
    BY <1>2, <1>4, <1>6 DEF ClInv
  <2>2. \A x \in Context \cup Program \cup Kernel : Born(x)' => Born(x)
    BY <1>2, <1>4
  <2>3. /\ \A p \in Program : Born(p) /\ functions'[p] = functions[p] => ProgramInv(p)'
        /\ \A k \in Kernel : Born(k) => KernelInv(k)'
        /\ \A q \in Queue : events'[q] = events[q] /\ tgx'[q] = tgx[q] => QueueInv(q)'
        /\ \A c \in Context : /\ Born(c) /\ queue'[c] = queue[c]
                              /\ \A e \in Device : Born(e) => queue'[e] = queue[e]
                              => ContextInv(c)'
    BY <1>1, <1>2, <2>1, PointerFrame
  <2> QED BY <1>1, <2>1, <2>2, <2>3 DEF PointerInv
<1>8. GraphInv'
  BY <1>1, <1>2, <1>4 DEF ClInv, GraphInv, GraphOf
<1>9. ASSUME untidy' = 0 PROVE TidyObjects' /\ TidyFirst'
  <2>1. ShapeInv /\ TidyObjects /\ TidyFirst
    BY <1>1, <1>9 DEF ClInv
  <2>2. \A x \in (Context \cup Device \cup Event) \cap Live : queue'[x] = queue[x]
    BY <1>2, <1>6
  <2>3. \A x \in Context \cup Queue \cup Program \cup Kernel \cup Mem \cup Event :
          x \in Live' <=> x \in Live
    BY <1>2, <1>4
  <2>4. \A q \in Queue \cap Live : ToSet(events'[q]) \subseteq Live'
    BY <1>1, <1>2, <2>1 DEF TidyObjects, TidyQueue
  <2>5. /\ \A c \in Context \cap Live : TidyContext(c)'
        /\ \A q \in Queue \cap Live : TidyQueue(q)'
        /\ \A p \in Program \cap Live : TidyProgram(p)'
        /\ \A k \in Kernel \cap Live : TidyKernel(k)'
        /\ \A m \in Mem \cap Live : TidyMem(m)'
        /\ \A e \in Event \cap Live : TidyEvent(e)'
    <3>1. Context \cap Live' = Context \cap Live /\ Live \subseteq Live'
      BY <1>2, <2>3
    <3> QED BY <1>1, <2>1, <2>2, <2>4, <3>1, TidyGrowth
  <2>6. TidyObjects'
    BY <2>3, <2>5 DEF TidyObjects
  <2>7. TidyFirst'
    BY <1>1, <2>1, ReleasedStays DEF GetDeviceIDs, TidyFirst
  <2> QED BY <2>6, <2>7
<1> QED BY <1>1, <1>5, <1>7, <1>8, <1>9, StillRunning DEF ClInv

\* clCreateContext: a tidy program has no other context, and with it no other
\* object than devices.
LEMMA CreateContextInv ==
  ASSUME ClInv, Running, NEW c \in Context \cap New, NEW D \in SUBSET Handle(Device),
         CreateContext(c, D)
  PROVE  ClInv'
<1>1. /\ devices' = [devices EXCEPT ![c] = D] /\ queue' = [queue EXCEPT ![c] = NULL]
      /\ cxt' = "live" /\ known' = {}
      /\ UNCHANGED <<ctx, device, program, unit, functions, fn, users, events, of, waiting>>
      /\ UNCHANGED <<first, placed, tgx, status>>
  BY DEF CreateContext, content
<1>2. /\ life' \in [Object -> {"new", "live", "released"}]
      /\ \A x : x # c => life'[x] = life[x]
      /\ life'[c] = "live" /\ ~ Born(c) /\ c \notin Live
      /\ Live' = Live \cup {c} /\ New' = New \ {c}
      /\ \A x : Born(x) => Born(x)'
      /\ \A x : Born(x)' => Born(x) \/ x = c
  BY CreateFacts DEF CreateContext, ClInv, ShapeInv, ClObjTypeOK
<1>3. untidy \in Nat /\ untidy' \in Nat
      /\ (untidy' = 0 => untidy = 0 /\ cxt # "live" /\ NULL \notin D)
  <2>1. /\ untidy \in Nat /\ Tidy(cxt # "live" /\ NULL \notin D)
        /\ (cxt # "live" /\ NULL \notin D) \in BOOLEAN
    BY DEF ClInv, ShapeInv, CreateContext
  <2> QED BY <2>1, TidyCall
<1>4. c \notin Device \cup Queue \cup Program \cup Kernel \cup Mem \cup Event
  BY Kinds
<1>5. ShapeInv'
  <2>1. devices' \in [Context -> SUBSET (Device \cup {NULL})]
    BY <1>1 DEF ClInv, ShapeInv, ClObjTypeOK, Handle
  <2>2. \A d \in Device : life'[d] # "new" => unit'[d] \in UnitType
    BY <1>1, <1>2, <1>4 DEF ClInv, ShapeInv, ClObjTypeOK
  <2>3. queue' \in [Context \cup Device \cup Event -> Queue \cup {NULL}]
    BY <1>1 DEF ClInv, ShapeInv, ClObjTypeOK
  <2>4. ClObjTypeOK'
    BY <1>1, <1>2, <2>1, <2>2, <2>3 DEF ClInv, ShapeInv, ClObjTypeOK
  <2> QED BY <1>1, <1>3, <2>4 DEF ClInv, ShapeInv, IsMap
<1>6. /\ \A x \in Context \cup Device \cup Event : x # c => queue'[x] = queue[x]
      /\ \A x \in Context : x # c => devices'[x] = devices[x]
      /\ queue'[c] = NULL /\ devices'[c] = D
  BY <1>1 DEF ClInv, ShapeInv, ClObjTypeOK
<1>7. PointerInv'
  <2>1. /\ ShapeInv /\ PointerInv
        /\ \A b \in Context : Born(b) => devices'[b] = devices[b] /\ queue'[b] = queue[b]
        /\ \A d \in Device : queue'[d] = queue[d]
    BY <1>2, <1>4, <1>6 DEF ClInv
  <2>2. \A x \in Program \cup Kernel : Born(x)' => Born(x)
    BY <1>2, <1>4
  <2>3. /\ \A p \in Program : Born(p) /\ functions'[p] = functions[p] => ProgramInv(p)'
        /\ \A k \in Kernel : Born(k) => KernelInv(k)'
        /\ \A q \in Queue : events'[q] = events[q] /\ tgx'[q] = tgx[q] => QueueInv(q)'
        /\ \A b \in Context : /\ Born(b) /\ queue'[b] = queue[b]
                              /\ \A d \in Device : Born(d) => queue'[d] = queue[d]
                              => ContextInv(b)'
    BY <1>1, <1>2, <2>1, PointerFrame
  <2>4. ContextInv(c)'
    BY <1>2, <1>6, LiveFacts DEF ContextInv, Handle
  <2>5. \A b \in Context : Born(b)' => ContextInv(b)'
    BY <1>2, <2>1, <2>3, <2>4
  <2> QED BY <1>1, <2>2, <2>3, <2>5 DEF PointerInv
<1>8. GraphInv'
  BY <1>1, <1>2, <1>4 DEF ClInv, GraphInv, GraphOf
<1>9. ASSUME untidy' = 0 PROVE TidyObjects' /\ TidyFirst'
  <2>1. untidy = 0 /\ cxt # "live" /\ NULL \notin D /\ TidyFirst
    BY <1>3, <1>9 DEF ClInv
  <2>2. \A x \in Live' : x = c \/ x \in Device
    <3>1. Context \cap Live = {}
      BY <2>1, TidyFacts
    <3>2. (Queue \cup Program \cup Mem \cup Event) \cap Live = {}
      BY <2>1, <3>1, TidyFacts
    <3>3. Kernel \cap Live = {}
      BY <2>1, <3>2, TidyFacts
    <3> QED BY <1>2, <3>1, <3>2, <3>3, LiveFacts
  <2>3. \A x \in Queue \cup Program \cup Kernel \cup Mem \cup Event : x \notin Live'
    BY <1>4, <2>2, Kinds
  <2>4. \A b \in Context \cap Live' : b = c
    BY <2>2, Kinds
  <2>5. TidyContext(c)'
    <3>1. D \subseteq Device \cap Live'
      BY <1>2, <2>1 DEF Handle
    <3> QED BY <1>1, <1>6, <2>4, <3>1 DEF TidyContext
  <2>6. TidyObjects'
    BY <2>3, <2>4, <2>5 DEF TidyObjects
  <2>7. cxt \in {"none", "deleted"}
    BY <2>1 DEF ClInv, ShapeInv
  <2>8. first # NULL => Released(Context)
    BY <2>1, <2>7 DEF TidyFirst
  <2>9. first' # NULL => Released(Context)'
    BY <1>1, <2>8, ReleasedStays DEF CreateContext
  <2> QED BY <1>1, <2>6, <2>9 DEF TidyFirst
<1> QED BY <1>1, <1>5, <1>7, <1>8, <1>9, StillRunning DEF ClInv

\* clCreateCommandQueue: the context's devices have the queue that the context has.
LEMMA CreateCommandQueueInv ==
  ASSUME ClInv, Running, NEW q \in Queue \cap New, NEW c \in Handle(Context),
         NEW d \in Handle(Device), CreateCommandQueue(q, c, d)
  PROVE  ClInv'
<1>1. c \in Context \cap Live /\ d \in Device \cap Live
  BY DEF CreateCommandQueue, Handle
<1>3. ASSUME NULL \in Associated(c, d), Crash("null") PROVE ClInv'
  <2>1. NULL \in devices[c] /\ c \in Context \ New
    BY <1>1, <1>3, LiveFacts DEF Associated
  <2>2. untidy # 0
    BY <1>1, <2>1, TidyFacts, LiveFacts
  <2>3. Blamed("null")
    BY <2>1, <2>2 DEF Blamed
  <2> QED BY <1>3, <2>3, CrashInv
<1>4. ASSUME ~ Associated(c, d) \subseteq Live, Crash("stale") PROVE ClInv'
  <2>1. untidy # 0
    BY <1>1, <1>4, TidyFacts DEF Associated
  <2>2. Blamed("stale")
    BY <2>1 DEF Blamed
  <2> QED BY <1>4, <2>2, CrashInv
<1>5. SUFFICES
        ASSUME Associated(c, d) \subseteq Live, Create(q),
               queue' = [o \in DOMAIN queue |-> IF o \in Associated(c, d) THEN q ELSE queue[o]],
               ctx' = [ctx EXCEPT ![q] = c], device' = [device EXCEPT ![q] = d],
               tgx' = [tgx EXCEPT ![q] = NULL], events' = [events EXCEPT ![q] = <<>>],
               UNCHANGED <<devices, program, unit, functions, fn, users, of, waiting,
                           cxt, known, first, placed, status, untidy>>
        PROVE  ClInv'
  BY <1>3, <1>4 DEF CreateCommandQueue, Using
<1>2. devices[c] \subseteq Device
  BY <1>1, <1>5, LiveFacts DEF Associated, ClInv, ShapeInv, ClObjTypeOK
<1>6. /\ life' \in [Object -> {"new", "live", "released"}]
      /\ \A x : x # q => life'[x] = life[x]
      /\ life'[q] = "live" /\ ~ Born(q) /\ q \notin Live
      /\ Live' = Live \cup {q} /\ New' = New \ {q}
      /\ \A x : Born(x) => Born(x)'
      /\ \A x : Born(x)' => Born(x) \/ x = q
  BY <1>5, CreateFacts DEF ClInv, ShapeInv, ClObjTypeOK
<1>7. q \notin Context \cup Device \cup Program \cup Kernel \cup Mem \cup Event
  BY Kinds
<1>8. /\ queue' \in [Context \cup Device \cup Event -> Queue \cup {NULL}]
      /\ queue'[c] = q /\ \A e \in devices[c] : queue'[e] = q
      /\ \A x \in Context \cup Device \cup Event : queue'[x] = q \/ queue'[x] = queue[x]
      /\ \A x \in Context : x # c => queue'[x] = queue[x]
      /\ \A x \in Event : queue'[x] = queue[x]
  <2>1. /\ DOMAIN queue = Context \cup Device \cup Event
        /\ queue \in [Context \cup Device \cup Event -> Queue \cup {NULL}]
    BY DEF ClInv, ShapeInv, ClObjTypeOK
  <2>2. \A x \in Context \cup Device \cup Event :
          queue'[x] = IF x \in Associated(c, d) THEN q ELSE queue[x]
    BY <1>5, <2>1
  <2>3. /\ c \in Associated(c, d) /\ devices[c] \subseteq Associated(c, d)
        /\ \A x \in Context : x # c => x \notin Associated(c, d)
        /\ \A x \in Event : x \notin Associated(c, d)
    BY <1>1, <1>2, Kinds DEF Associated
  <2>4. queue' \in [Context \cup Device \cup Event -> Queue \cup {NULL}]
    BY <1>5, <2>1
  <2> QED BY <1>1, <1>2, <2>2, <2>3, <2>4
<1>9. /\ \A x \in Queue \cup Program \cup Mem \cup Event : x # q => ctx'[x] = ctx[x]
      /\ \A x \in Queue \cup Kernel : x # q => device'[x] = device[x]
      /\ \A x \in Queue : x # q => tgx'[x] = tgx[x] /\ events'[x] = events[x]
      /\ ctx'[q] = c /\ device'[q] = d /\ tgx'[q] = NULL /\ events'[q] = <<>>
  BY <1>5 DEF ClInv, ShapeInv, ClObjTypeOK, IsMap
<1>10. ShapeInv'
  <2>1. \A e \in Device : life'[e] # "new" => unit'[e] \in UnitType
    BY <1>5, <1>6, <1>7 DEF ClInv, ShapeInv, ClObjTypeOK
  <2>2. /\ ctx' \in [UNION {Queue, Program, Mem, Event} -> Context \cup {NULL}]
        /\ device' \in [Queue \cup Kernel -> Device \cup {NULL}]
    BY <1>1, <1>5 DEF ClInv, ShapeInv, ClObjTypeOK
  <2>3. \A r \in Queue : ToSet(events'[r]) \subseteq Event /\ IsInjective(events'[r])
    <3>1. ToSet(<<>>) \subseteq Event /\ IsInjective(<<>>)
      BY DEF ToSet, IsInjective
    <3> QED BY <1>9, <3>1 DEF ClInv, ShapeInv, ClObjTypeOK
  <2>4. \A r \in Queue : tgx'[r] # NULL =>
          /\ ToSet(tgx'[r].kernels) \subseteq Kernel /\ IsInjective(tgx'[r].kernels)
          /\ tgx'[r].buffers \subseteq Mem
    BY <1>9 DEF ClInv, ShapeInv, ClObjTypeOK
  <2>5. ClObjTypeOK'
    BY <1>5, <1>6, <1>8, <2>1, <2>2, <2>3, <2>4 DEF ClInv, ShapeInv, ClObjTypeOK
  <2>6. events' \in [Queue -> Seq(Event)]
    BY <1>5 DEF ClInv, ShapeInv
  <2>7. IsMap(tgx', Queue) /\ \A r \in Queue : tgx'[r] \in TaskGraph \cup {NULL}
    BY <1>5, <1>9 DEF ClInv, ShapeInv, IsMap
  <2> QED BY <1>5, <2>5, <2>6, <2>7 DEF ClInv, ShapeInv, IsMap
<1>11. PointerInv'
  <2>1. ShapeInv /\ PointerInv
    BY DEF ClInv
  <2>2. /\ \A p \in Program : ctx'[p] = ctx[p]
        /\ \A k \in Kernel : device'[k] = device[k]
    BY <1>7, <1>9
  <2>3. /\ \A p \in Program : Born(p) /\ functions'[p] = functions[p] => ProgramInv(p)'
        /\ \A k \in Kernel : Born(k) => KernelInv(k)'
        /\ \A r \in Queue : events'[r] = events[r] /\ tgx'[r] = tgx[r] => QueueInv(r)'
    <3>1. \A x : Born(x) => Born(x)'
      BY <1>6
    <3> QED BY <1>5, <2>1, <2>2, <3>1, PointerFrame
  <2>4. QueueInv(q)'
    BY <1>9 DEF QueueInv, ToSet
  <2>5. ASSUME NEW b \in Context, Born(b) PROVE ContextInv(b)'
    <3>1. ContextInv(b) /\ devices'[b] = devices[b]
      BY <1>5, <2>1, <2>5 DEF PointerInv
    <3>2. q # NULL
      BY LiveFacts
    <3>3. ASSUME NEW e \in Device \cap devices[b], queue'[b] # NULL PROVE queue'[e] # NULL
      <4>1. CASE b = c
        BY <1>8, <3>2, <4>1
      <4>2. CASE b # c
        BY <1>8, <3>1, <3>2, <3>3, <4>2 DEF ContextInv
      <4> QED BY <4>1, <4>2
    <3> QED BY <1>6, <3>1, <3>3 DEF ContextInv
  <2>6. \A x \in Context \cup Program \cup Kernel : Born(x)' => Born(x)
    BY <1>6, <1>7
  <2> QED BY <1>5, <1>9, <2>3, <2>4, <2>5, <2>6 DEF PointerInv
<1>12. GraphInv'
  <2>1. \A r \in Queue : Born(r) => Born(r)' /\ GraphOf(r)' = GraphOf(r)
    BY <1>6, <1>9 DEF GraphOf
  <2>2. GraphOf(q)'.buffers = {}
    BY <1>9 DEF GraphOf, NoGraph
  <2>3. \A r \in Queue : r # q => GraphOf(r)' = GraphOf(r)
    BY <1>9 DEF GraphOf
  <2>4. \A k \in Kernel : Born(k)' => Born(k)
    BY <1>6, <1>7
  <2>5. \A r \in Queue : \A m \in GraphOf(r)'.buffers : Born(m)'
    BY <1>6, <2>2, <2>3 DEF ClInv, GraphInv
  <2> QED BY <1>5, <1>6, <2>1, <2>4, <2>5 DEF ClInv, GraphInv
<1>13. ASSUME untidy' = 0 PROVE TidyObjects' /\ TidyFirst'
  <2>1. untidy = 0 /\ TidyObjects /\ TidyFirst
    BY <1>5, <1>13 DEF ClInv
  <2>2. \A x \in Context \cup Device \cup Program \cup Kernel \cup Mem \cup Event :
          x \in Live' <=> x \in Live
    BY <1>6, <1>7
  <2>3. cxt = "live" /\ devices[c] \subseteq Live /\ \A b \in Context \cap Live : b = c
    BY <1>1, <2>1 DEF TidyObjects, TidyContext
  <2>4. \A b \in Context \cap Live' : TidyContext(b)'
    <3>1. TidyContext(c)'
      BY <1>5, <1>6, <1>8, <2>2, <2>3 DEF TidyContext
    <3> QED BY <2>2, <2>3, <3>1
  <2>5. \A r \in Queue \cap Live' : TidyQueue(r)'
    <3>1. TidyQueue(q)'
      BY <1>1, <1>6, <1>9 DEF TidyQueue, ToSet
    <3>2. ASSUME NEW r \in Queue \cap Live', r # q PROVE TidyQueue(r)'
      BY <1>6, <1>9, <2>1, <3>2 DEF TidyObjects, TidyQueue
    <3> QED BY <3>1, <3>2
  <2>6. \A x \in Program \cup Mem : x \in Live => ctx'[x] = ctx[x] /\ ctx[x] = c
    BY <1>7, <1>9, <2>1, <2>3, TidyFacts
  <2>7. \A p \in Program \cap Live' : TidyProgram(p)'
    BY <1>1, <1>6, <1>8, <2>2, <2>6 DEF TidyProgram
  <2>8. \A k \in Kernel \cap Live' : TidyKernel(k)'
    BY <1>5, <1>6, <1>7, <1>9, <2>1, <2>2 DEF TidyObjects, TidyKernel
  <2>9. \A m \in Mem \cap Live' : TidyMem(m)'
    BY <1>1, <1>5, <1>6, <1>8, <2>1, <2>2, <2>6 DEF TidyObjects, TidyMem
  <2>10. \A e \in Event \cap Live' : TidyEvent(e)'
    BY <1>5, <1>6, <1>7, <1>8, <1>9, <2>1, <2>2 DEF TidyObjects, TidyEvent
  <2>11. TidyFirst'
    BY <1>5, <2>1, ReleasedStays DEF TidyFirst
  <2> QED BY <2>4, <2>5, <2>7, <2>8, <2>9, <2>10, <2>11 DEF TidyObjects
<1> QED BY <1>5, <1>10, <1>11, <1>12, <1>13, StillRunning DEF ClInv
-----------------------------------------------------------------------------
(***************************************************************************)
(* The calls of programs and kernels.                                      *)
(***************************************************************************)
\* clCreateProgramWithBinary: every entry is a device of the context, with a
\* kernel function whose one image is for that device's type.
LEMMA CreateProgramInv ==
  ASSUME ClInv, Running, NEW p \in Program \cap New, NEW c \in Handle(Context), NEW n \in Nat,
         NEW ds \in [1 .. n -> Handle(Device)], NEW paths \in [1 .. n -> Path \cup {NULL}],
         CreateProgramWithBinary(p, c, ds, paths)
  PROVE  ClInv'
<1>1. c \in Context \cap Live /\ Born(c)
  BY LiveFacts DEF CreateProgramWithBinary, Handle
<1>0. CASE Crash("null argument")
  BY <1>0, CrashInv DEF Blamed, TidyEnd
<1> SUFFICES ASSUME MakeProgram(p, c, ds, paths) PROVE ClInv'
  BY <1>0 DEF CreateProgramWithBinary
<1>2. PICK last \in [ToSet(paths) -> DOMAIN paths] :
        functions' = [functions EXCEPT ![p] = [path \in ToSet(paths) |->
            [device |-> ds[last[path]], buffers |-> FALSE,
             function |-> LoadBinaryAt(ds, paths, last[path]).function]]]
  BY DEF MakeProgram
<1>3. /\ Create(p) /\ ctx' = [ctx EXCEPT ![p] = c] /\ Tidy(queue[c] \in Live)
      /\ checkDevicesInContext(c, ds) /\ Loaded(ds, paths, Len(ds))
      /\ UNCHANGED <<devices, queue, device, program, unit, fn, users, events, of, waiting>>
      /\ UNCHANGED <<cxt, known, first, placed, tgx, status>>
  BY DEF CreateProgramWithBinary, MakeProgram, host
<1>4. /\ life' \in [Object -> {"new", "live", "released"}]
      /\ \A x : x # p => life'[x] = life[x]
      /\ life'[p] = "live" /\ ~ Born(p) /\ p \notin Live
      /\ Live' = Live \cup {p} /\ New' = New \ {p}
      /\ \A x : Born(x) => Born(x)'
      /\ \A x : Born(x)' => Born(x) \/ x = p
  BY <1>3, CreateFacts DEF ClInv, ShapeInv, ClObjTypeOK
<1>5. untidy \in Nat /\ untidy' \in Nat /\ (untidy' = 0 => untidy = 0 /\ queue[c] \in Live)
  <2>1. untidy \in Nat /\ (queue[c] \in Live) \in BOOLEAN
    BY DEF ClInv, ShapeInv
  <2> QED BY <1>3, <2>1, TidyCall
<1>6. p \notin Context \cup Device \cup Queue \cup Kernel \cup Mem \cup Event
  BY Kinds
<1>7. /\ \A x \in Queue \cup Program \cup Mem \cup Event : x # p => ctx'[x] = ctx[x]
      /\ \A x \in Program : x # p => functions'[x] = functions[x]
      /\ ctx'[p] = c
  BY <1>2, <1>3 DEF ClInv, ShapeInv, ClObjTypeOK, IsMap
<1>8. ShapeInv'
  <2>1. \A d \in Device : life'[d] # "new" => unit'[d] \in UnitType
    BY <1>3, <1>4, <1>6 DEF ClInv, ShapeInv, ClObjTypeOK
  <2>2. ctx' \in [UNION {Queue, Program, Mem, Event} -> Context \cup {NULL}]
    BY <1>1, <1>3 DEF ClInv, ShapeInv, ClObjTypeOK
  <2>3. ClObjTypeOK'
    BY <1>3, <1>4, <2>1, <2>2 DEF ClInv, ShapeInv, ClObjTypeOK
  <2>4. IsMap(functions', Program)
    BY <1>2 DEF ClInv, ShapeInv, IsMap
  <2> QED BY <1>3, <1>5, <2>3, <2>4 DEF ClInv, ShapeInv, IsMap
<1>9. ProgramInv(p)'
  <2>0. \A i \in 1 .. n : ds[i] # NULL /\ LoadBinaryAt(ds, paths, i).result = "SUCCESS"
    <3>1. ds \in Seq(Handle(Device)) /\ Len(ds) = n
      OBVIOUS
    <3> QED BY <1>3, <3>1 DEF Loaded
  <2>1. \A i \in 1 .. n : ds[i] \in Device \cap devices[c]
    BY <1>3, <2>0 DEF checkDevicesInContext, ToSet, Handle
  <2>2. functions'[p] = [path \in ToSet(paths) |->
            [device |-> ds[last[path]], buffers |-> FALSE,
             function |-> LoadBinaryAt(ds, paths, last[path]).function]]
    BY <1>2 DEF ClInv, ShapeInv, IsMap
  <2>3. ASSUME NEW path \in ToSet(paths)
        PROVE  /\ IsMap(functions'[p][path], {"device", "function", "buffers"})
               /\ LoadedFor(functions'[p][path], c)
    <3> DEFINE i == last[path]
               f == LoadBinaryAt(ds, paths, i).function
    <3>1. i \in 1 .. n
      BY <2>3
    <3>2. Targets(f) = {unit[ds[i]]}
      <4>1. LoadBinaryAt(ds, paths, i).result = "SUCCESS"
        BY <2>0, <3>1
      <4> QED BY <4>1, LoadTarget DEF LoadBinaryAt
    <3> HIDE DEF f
    <3>3. functions'[p][path] = [device |-> ds[i], buffers |-> FALSE, function |-> f]
      BY <2>2, <2>3 DEF f
    <3> HIDE DEF i
    <3>4. LoadedFor([device |-> ds[i], buffers |-> FALSE, function |-> f], c)
      BY <2>1, <3>1, <3>2 DEF LoadedFor
    <3>5. IsMap([device |-> ds[i], buffers |-> FALSE, function |-> f],
                {"device", "function", "buffers"})
      BY DEF IsMap
    <3> QED BY <3>3, <3>4, <3>5
  <2>4. DOMAIN (functions'[p]) = ToSet(paths)
    BY <2>2
  <2>5. ctx'[p] \in Context /\ Born(ctx[p])'
    BY <1>1, <1>4, <1>7
  <2> QED BY <1>3, <1>7, <2>3, <2>4, <2>5 DEF ProgramInv, LoadedFor
<1>10. PointerInv'
  <2>1. ShapeInv /\ PointerInv
    BY DEF ClInv
  <2>2. /\ \A r \in Program : Born(r) => ctx'[r] = ctx[r] /\ functions'[r] = functions[r]
    BY <1>4, <1>7
  <2>3. /\ \A r \in Program : Born(r) /\ functions'[r] = functions[r] => ProgramInv(r)'
        /\ \A k \in Kernel : Born(k) => KernelInv(k)'
        /\ \A q \in Queue : events'[q] = events[q] /\ tgx'[q] = tgx[q] => QueueInv(q)'
        /\ \A b \in Context : /\ Born(b) /\ queue'[b] = queue[b]
                              /\ \A d \in Device : Born(d) => queue'[d] = queue[d]
                              => ContextInv(b)'
    <3>1. \A x : Born(x) => Born(x)'
      BY <1>4
    <3> QED BY <1>3, <2>1, <2>2, <3>1, PointerFrame
  <2>4. /\ \A x \in Context \cup Kernel : Born(x)' => Born(x)
        /\ \A r \in Program : Born(r)' => Born(r) \/ r = p
    BY <1>4, <1>6
  <2> QED BY <1>3, <1>9, <2>2, <2>3, <2>4 DEF PointerInv
<1>11. GraphInv'
  BY <1>3, <1>4, <1>6 DEF ClInv, GraphInv, GraphOf
<1>12. ASSUME untidy' = 0 PROVE TidyObjects' /\ TidyFirst'
  <2>1. ShapeInv /\ TidyObjects /\ TidyFirst /\ queue[c] \in Live
    BY <1>5, <1>12 DEF ClInv
  <2>2. \A x \in Context \cup Queue \cup Kernel \cup Mem \cup Event : x \in Live' <=> x \in Live
    BY <1>4, <1>6
  <2>3. \A q \in Queue \cap Live : ToSet(events'[q]) \subseteq Live'
    BY <1>3, <1>4, <2>1 DEF TidyObjects, TidyQueue
  <2>4. /\ \A b \in Context \cap Live : TidyContext(b)'
        /\ \A q \in Queue \cap Live : TidyQueue(q)'
        /\ \A r \in Program \cap Live : TidyProgram(r)'
        /\ \A k \in Kernel \cap Live : TidyKernel(k)'
        /\ \A m \in Mem \cap Live : TidyMem(m)'
        /\ \A e \in Event \cap Live : TidyEvent(e)'
    <3>1. Context \cap Live' = Context \cap Live /\ Live \subseteq Live'
      BY <1>4, <2>2
    <3>2. \A x \in (Queue \cup Program \cup Mem \cup Event) \cap Live : ctx'[x] = ctx[x]
      BY <1>4, <1>7
    <3> QED BY <1>3, <2>1, <2>3, <3>1, <3>2, TidyGrowth
  <2>5. TidyProgram(p)'
    BY <1>1, <1>3, <1>4, <1>7, <2>1 DEF TidyProgram
  <2>6. TidyObjects'
    BY <1>4, <2>2, <2>4, <2>5 DEF TidyObjects
  <2>7. TidyFirst'
    BY <1>3, <2>1, ReleasedStays DEF TidyFirst
  <2> QED BY <2>6, <2>7
<1> QED BY <1>3, <1>8, <1>10, <1>11, <1>12, StillRunning DEF ClInv

\* clSetInputBufferIDs and clSetOutputBufferIDs: an entry that is made here has
\* no function.
LEMMA SetBufferIDsInv ==
  ASSUME ClInv, Running, NEW p \in Handle(Program), NEW path \in Path \cup {NULL},
         SetBufferIDs(p, path)
  PROVE  ClInv'
<1>0. CASE Crash("null argument")
  BY <1>0, CrashInv DEF Blamed, TidyEnd
<1> SUFFICES ASSUME NULL \notin {p, path}, ~ Crash("null argument") PROVE ClInv'
  BY <1>0 DEF SetBufferIDs, UnlessPassedNull
<1>a. p \in Program \cap Live
  BY DEF Handle
<1> DEFINE old == EntryOf(p, path)
           e == [old EXCEPT !.buffers = TRUE]
           S == {"device", "function", "buffers"}
<1>1. /\ functions' = [functions EXCEPT ![p] = Assign(@, path, e)]
      /\ UNCHANGED <<life, devices, queue, ctx, device, program>>
      /\ UNCHANGED <<unit, fn, users, events, of, waiting>>
      /\ UNCHANGED <<cxt, known, first, placed, tgx, status, untidy>>
  BY DEF SetBufferIDs, UnlessPassedNull, pointers, host
<1>2. ProgramInv(p)
  BY <1>a, LiveFacts DEF ClInv, PointerInv
<1>3. IsMap(old, S) /\ (old.function # NULL => LoadedFor(old, ctx[p]))
  <2>1. CASE path \in DOMAIN functions[p]
    BY <1>2, <2>1 DEF ProgramInv, EntryOf
  <2>2. CASE path \notin DOMAIN functions[p]
    BY <2>2 DEF IsMap, EntryOf
  <2> QED BY <2>1, <2>2
<1> HIDE DEF old
<1>4. IsMap(e, S) /\ e.function = old.function /\ e.device = old.device
  BY <1>3 DEF IsMap
<1> HIDE DEF e
<1>5. functions'[p] = Assign(functions[p], path, e) /\ IsMap(functions', Program)
      /\ \A r \in Program : r # p => functions'[r] = functions[r]
  BY <1>1, <1>a DEF ClInv, ShapeInv, IsMap
<1>6. ASSUME NEW y \in DOMAIN (functions'[p])
      PROVE  /\ IsMap(functions'[p][y], S)
             /\ functions'[p][y].function # NULL => LoadedFor(functions'[p][y], ctx[p])
  <2>1. y = path \/ y \in DOMAIN functions[p]
    BY <1>5 DEF Assign
  <2>2. functions'[p][y] = IF y = path THEN e ELSE functions[p][y]
    BY <1>5, <1>6 DEF Assign
  <2>3. CASE y = path
    BY <1>3, <1>4, <2>2, <2>3 DEF LoadedFor
  <2>4. CASE y # path
    BY <1>2, <2>1, <2>2, <2>4 DEF ProgramInv
  <2> QED BY <2>3, <2>4
<1>7. ProgramInv(p)'
  BY <1>1, <1>2, <1>6, <1>a DEF ProgramInv, LoadedFor, Born
<1>8. ShapeInv'
  BY <1>1, <1>5 DEF ClInv, ShapeInv, ClObjTypeOK, IsMap
<1>9. PointerInv'
  <2>1. /\ ShapeInv /\ PointerInv /\ \A x : Born(x)' <=> Born(x)
    BY <1>1 DEF ClInv, Born
  <2>2. /\ \A r \in Program : Born(r) /\ functions'[r] = functions[r] => ProgramInv(r)'
        /\ \A k \in Kernel : Born(k) => KernelInv(k)'
        /\ \A q \in Queue : events'[q] = events[q] /\ tgx'[q] = tgx[q] => QueueInv(q)'
        /\ \A b \in Context : /\ Born(b) /\ queue'[b] = queue[b]
                              /\ \A d \in Device : Born(d) => queue'[d] = queue[d]
                              => ContextInv(b)'
    BY <1>1, <2>1, PointerFrame
  <2> QED BY <1>1, <1>5, <1>7, <2>1, <2>2 DEF PointerInv
<1>10. GraphInv'
  BY <1>1 DEF ClInv, GraphInv, GraphOf, Born
<1>11. ASSUME untidy' = 0 PROVE TidyObjects' /\ TidyFirst'
  <2>1. TidyObjects /\ TidyFirst
    BY <1>1, <1>11 DEF ClInv
  <2>2. /\ Live' = Live /\ TidyObjects'
    BY <1>1, <2>1 DEF Live, TidyObjects, TidyContext, TidyQueue, TidyProgram, TidyKernel,
       TidyMem, TidyEvent
  <2>3. TidyFirst'
    BY <1>1, <2>1 DEF TidyFirst, Released
  <2> QED BY <2>2, <2>3
<1> QED BY <1>1, <1>8, <1>9, <1>10, <1>11, StillRunning DEF ClInv

\* The graph of a queue, and what is added to it.
LEMMA GraphFacts ==
  ASSUME ShapeInv, NEW q \in Queue
  PROVE  /\ GraphOf(q) \in TaskGraph /\ IsInjective(GraphOf(q).kernels)
         /\ \A K \in Seq(Kernel), M \in SUBSET Mem :
              /\ AddToGraph(q, K, M) \in TaskGraph /\ AddToGraph(q, K, M) # NULL
              /\ AddToGraph(q, K, M).kernels = GraphOf(q).kernels \o K
              /\ AddToGraph(q, K, M).buffers = GraphOf(q).buffers \cup M
<1> DEFINE g == GraphOf(q)
<1>1. g \in TaskGraph /\ IsInjective(g.kernels)
  <2>1. NoGraph \in TaskGraph
    <3>1. <<>> \in Seq(Kernel)
      OBVIOUS
    <3> QED BY <3>1 DEF NoGraph, TaskGraph
  <2>2. IsInjective(NoGraph.kernels)
    BY DEF NoGraph, IsInjective
  <2> QED BY <2>1, <2>2 DEF GraphOf, ShapeInv, ClObjTypeOK
<1> HIDE DEF g
<1>2. ASSUME NEW K \in Seq(Kernel), NEW M \in SUBSET Mem
      PROVE  /\ AddToGraph(q, K, M) \in TaskGraph /\ AddToGraph(q, K, M) # NULL
             /\ AddToGraph(q, K, M).kernels = g.kernels \o K
             /\ AddToGraph(q, K, M).buffers = g.buffers \cup M
  <2> DEFINE ks == g.kernels \o K
             bs == g.buffers \cup M
  <2>1. g.kernels \in Seq(Kernel) /\ g.buffers \in SUBSET Mem
    BY <1>1 DEF TaskGraph
  <2>2. ks \in Seq(Kernel) /\ bs \in SUBSET Mem
    BY <2>1
  <2>3. g = [kernels |-> g.kernels, buffers |-> g.buffers]
    BY <1>1 DEF TaskGraph
  <2>4. AddToGraph(q, K, M) = [g EXCEPT !.kernels = ks, !.buffers = bs]
    BY <2>3 DEF AddToGraph, g
  <2> HIDE DEF ks, bs
  <2>5. AddToGraph(q, K, M) = [kernels |-> ks, buffers |-> bs]
    BY <2>3, <2>4
  <2>6. [kernels |-> ks, buffers |-> bs] \in TaskGraph
    BY <2>2 DEF TaskGraph
  <2>7. NULL \notin TaskGraph
    BY HandlesAssumption
  <2> DEFINE h == AddToGraph(q, K, M)
  <2>8. h.kernels = ks /\ h.buffers = bs
    BY <2>5
  <2>9. h \in TaskGraph /\ h # NULL
    BY <2>5, <2>6, <2>7
  <2> HIDE DEF h
  <2>10. h.kernels = g.kernels \o K /\ h.buffers = g.buffers \cup M
    BY <2>8 DEF ks, bs
  <2> QED BY <2>9, <2>10 DEF h
<1> QED BY <1>1, <1>2 DEF g

\* A kernel function is registered as a kernel, for the device it was loaded for.
LEMMA RegisterKernelInv ==
  ASSUME ClInv, Running, NEW k \in Kernel \cap New, NEW p \in Program \cap Live, NEW entry,
         LoadedFor(entry, ctx[p]), NEW q \in Queue \cap Live, q = queue[entry.device],
         Create(k), device' = [device EXCEPT ![k] = entry.device],
         program' = [program EXCEPT ![k] = p], fn' = [fn EXCEPT ![k] = entry],
         known' = known \cup {k}, first' = IF first = NULL THEN k ELSE first,
         tgx' = [tgx EXCEPT ![q] = AddToGraph(q, <<k>>, {})],
         UNCHANGED <<devices, queue, ctx, unit, functions, users, events, of, waiting>>,
         UNCHANGED <<cxt, placed, status, untidy>>
  PROVE  ClInv'
<1>1. /\ life' \in [Object -> {"new", "live", "released"}]
      /\ \A x : x # k => life'[x] = life[x]
      /\ life'[k] = "live" /\ ~ Born(k) /\ k \notin Live
      /\ Live' = Live \cup {k} /\ New' = New \ {k}
      /\ \A x : Born(x) => Born(x)'
      /\ \A x : Born(x)' => Born(x) \/ x = k
  BY CreateFacts DEF ClInv, ShapeInv, ClObjTypeOK
<1>2. k \notin Context \cup Device \cup Queue \cup Program \cup Mem \cup Event
  BY Kinds
<1>3. /\ \A x \in Kernel : x # k => program'[x] = program[x] /\ fn'[x] = fn[x]
      /\ \A x \in Queue \cup Kernel : x # k => device'[x] = device[x]
      /\ program'[k] = p /\ device'[k] = entry.device /\ fn'[k] = entry
  BY DEF ClInv, ShapeInv, ClObjTypeOK, IsMap
<1>4. /\ p \in Program /\ Born(p) /\ ctx[p] \in Context /\ Born(ctx[p])
      /\ entry.device \in devices[ctx[p]] /\ entry.device \in Device
  BY LiveFacts DEF ClInv, PointerInv, ProgramInv, LoadedFor, ShapeInv, ClObjTypeOK
<1>5. /\ \A r \in Queue : r # q => tgx'[r] = tgx[r]
      /\ tgx'[q] \in TaskGraph /\ tgx'[q] # NULL
      /\ tgx'[q].kernels = Append(GraphOf(q).kernels, k)
      /\ tgx'[q].buffers = GraphOf(q).buffers /\ IsMap(tgx', Queue)
  <2>1. <<k>> \in Seq(Kernel) /\ {} \in SUBSET Mem /\ ShapeInv
    BY DEF ClInv
  <2>2. /\ AddToGraph(q, <<k>>, {}) \in TaskGraph /\ AddToGraph(q, <<k>>, {}) # NULL
        /\ AddToGraph(q, <<k>>, {}).kernels = GraphOf(q).kernels \o <<k>>
        /\ AddToGraph(q, <<k>>, {}).buffers = GraphOf(q).buffers \cup {}
    <3>1. \A K \in Seq(Kernel), M \in SUBSET Mem :
            /\ AddToGraph(q, K, M) \in TaskGraph /\ AddToGraph(q, K, M) # NULL
            /\ AddToGraph(q, K, M).kernels = GraphOf(q).kernels \o K
            /\ AddToGraph(q, K, M).buffers = GraphOf(q).buffers \cup M
      BY <2>1, GraphFacts
    <3> DEFINE K == <<k>>
               M == {}
    <3>2. K \in Seq(Kernel) /\ M \in SUBSET Mem
      BY <2>1
    <3> HIDE DEF K, M
    <3>3. /\ AddToGraph(q, K, M) \in TaskGraph /\ AddToGraph(q, K, M) # NULL
          /\ AddToGraph(q, K, M).kernels = GraphOf(q).kernels \o K
          /\ AddToGraph(q, K, M).buffers = GraphOf(q).buffers \cup M
      BY <3>1, <3>2
    <3> QED BY <3>3 DEF K, M
  <2>3. GraphOf(q).kernels \in Seq(Kernel)
    BY <2>1, GraphFacts DEF TaskGraph
  <2>4. GraphOf(q).kernels \o <<k>> = Append(GraphOf(q).kernels, k)
    BY <2>3
  <2>5. tgx'[q] = AddToGraph(q, <<k>>, {}) /\ IsMap(tgx', Queue)
        /\ \A r \in Queue : r # q => tgx'[r] = tgx[r]
    BY DEF ClInv, ShapeInv, IsMap
  <2> QED BY <2>2, <2>4, <2>5
<1>6. /\ IsInjective(tgx'[q].kernels)
      /\ ToSet(tgx'[q].kernels) = ToSet(GraphOf(q).kernels) \cup {k}
  <2>1. GraphOf(q).kernels \in Seq(Kernel) /\ IsInjective(GraphOf(q).kernels)
    BY GraphFacts DEF ClInv, TaskGraph
  <2>2. \A j \in ToSet(GraphOf(q).kernels) : Born(j)
    BY DEF ClInv, PointerInv, QueueInv, GraphOf, NoGraph, ToSet
  <2>3. k \notin ToSet(GraphOf(q).kernels)
    BY <1>1, <2>2
  <2> DEFINE ks == GraphOf(q).kernels
  <2> HIDE DEF ks
  <2>4. ks \in Seq(Kernel) /\ IsInjective(ks) /\ k \notin ToSet(ks) /\ k \in Kernel
    BY <2>1, <2>3 DEF ks
  <2>5. IsInjective(Append(ks, k)) /\ ToSet(Append(ks, k)) = ToSet(ks) \cup {k}
    BY <2>4, AppendNew
  <2> QED BY <1>5, <2>5 DEF ks
<1>7. ShapeInv'
  <2>1. \A d \in Device : life'[d] # "new" => unit'[d] \in UnitType
    BY <1>1, <1>2 DEF ClInv, ShapeInv, ClObjTypeOK
  <2>2. /\ device' \in [Queue \cup Kernel -> Device \cup {NULL}]
        /\ program' \in [Kernel -> Program \cup {NULL}]
    BY <1>4 DEF ClInv, ShapeInv, ClObjTypeOK
  <2>3. \A r \in Queue : tgx'[r] # NULL =>
          /\ ToSet(tgx'[r].kernels) \subseteq Kernel /\ IsInjective(tgx'[r].kernels)
          /\ tgx'[r].buffers \subseteq Mem
    <3>1. ToSet(GraphOf(q).kernels) \subseteq Kernel /\ tgx'[q].buffers \subseteq Mem
      BY <1>5 DEF ClInv, ShapeInv, ClObjTypeOK, GraphOf, NoGraph, ToSet
    <3>2. ToSet(tgx'[q].kernels) \subseteq Kernel
      BY <1>6, <3>1
    <3> QED BY <1>5, <1>6, <3>1, <3>2 DEF ClInv, ShapeInv, ClObjTypeOK
  <2>4. known' \cup placed' \subseteq Kernel \cup Mem
    BY DEF ClInv, ShapeInv, ClObjTypeOK
  <2>5. ClObjTypeOK'
    BY <1>1, <2>1, <2>2, <2>3, <2>4 DEF ClInv, ShapeInv, ClObjTypeOK
  <2>6. IsMap(fn', Kernel) /\ \A r \in Queue : tgx'[r] \in TaskGraph \cup {NULL}
    BY <1>5 DEF ClInv, ShapeInv, IsMap
  <2> QED BY <1>5, <2>5, <2>6 DEF ClInv, ShapeInv, IsMap
<1>8. first' # NULL
  BY LiveFacts
<1>9. PointerInv'
  <2>1. ShapeInv /\ PointerInv
    BY DEF ClInv
  <2>2. \A j \in Kernel : Born(j) =>
          program'[j] = program[j] /\ device'[j] = device[j] /\ fn'[j] = fn[j]
    BY <1>1, <1>3
  <2>3. /\ \A r \in Program : Born(r) /\ functions'[r] = functions[r] => ProgramInv(r)'
        /\ \A j \in Kernel : Born(j) => KernelInv(j)'
        /\ \A r \in Queue : events'[r] = events[r] /\ tgx'[r] = tgx[r] => QueueInv(r)'
        /\ \A b \in Context : /\ Born(b) /\ queue'[b] = queue[b]
                              /\ \A d \in Device : Born(d) => queue'[d] = queue[d]
                              => ContextInv(b)'
    <3>1. \A x : Born(x) => Born(x)'
      BY <1>1
    <3> QED BY <1>8, <2>1, <2>2, <3>1, PointerFrame
  <2>4. KernelInv(k)'
    <3>1. Targets(entry.function) = {unit[entry.device]}
      BY DEF LoadedFor
    <3> QED BY <1>1, <1>3, <1>4, <1>8, <3>1 DEF KernelInv
  <2>5. QueueInv(q)'
    <3>1. \A j \in ToSet(GraphOf(q).kernels) : Born(j)
      BY <2>1 DEF PointerInv, QueueInv, GraphOf, NoGraph, ToSet
    <3>2. \A j \in ToSet(tgx'[q].kernels) : Born(j)'
      <4>1. Born(k)'
        BY <1>1 DEF Born
      <4> QED BY <1>1, <1>6, <3>1, <4>1
    <3>3. \A e \in ToSet(events[q]) : Born(e)'
      BY <1>1, <2>1 DEF PointerInv, QueueInv
    <3> QED BY <3>2, <3>3 DEF QueueInv
  <2>6. /\ \A x \in Context \cup Program : Born(x)' => Born(x)
        /\ \A j \in Kernel : Born(j)' => Born(j) \/ j = k
    BY <1>1, <1>2
  <2> QED BY <1>5, <2>3, <2>4, <2>5, <2>6 DEF PointerInv
<1>10. GraphInv'
  <2>1. /\ GraphOf(q)'.buffers = GraphOf(q).buffers
        /\ ToSet(GraphOf(q)'.kernels) = ToSet(GraphOf(q).kernels) \cup {k}
        /\ \A r \in Queue : r # q => GraphOf(r)' = GraphOf(r)
    BY <1>5, <1>6 DEF GraphOf
  <2>2. /\ Born(q) /\ Born(k)' /\ known' = known \cup {k} /\ k \notin Mem
        /\ users' = users /\ \A x : Born(x) => Born(x)'
    BY <1>1, <1>2, LiveFacts DEF Born
  <2>3. ASSUME NEW j \in Kernel, Born(j)'
        PROVE  \E r \in Queue : Born(r)' /\ j \in ToSet(GraphOf(r)'.kernels)
    <3>1. CASE j = k
      BY <2>1, <2>2, <3>1
    <3>2. CASE j # k
      BY <1>1, <2>1, <2>2, <2>3, <3>2 DEF ClInv, GraphInv
    <3> QED BY <3>1, <3>2
  <2>4. \A m \in known' \cap Mem : \E r \in Queue : Born(r)' /\ m \in GraphOf(r)'.buffers
    BY <2>1, <2>2 DEF ClInv, GraphInv
  <2>5. \A r \in Queue : \A m \in GraphOf(r)'.buffers : Born(m)'
    BY <2>1, <2>2 DEF ClInv, GraphInv
  <2>6. /\ \A j \in known' \cap Kernel : Born(j)'
        /\ \A m \in Mem : \A j \in users'[m] : Born(j)'
    BY <2>2 DEF ClInv, GraphInv
  <2> QED BY <2>3, <2>4, <2>5, <2>6 DEF GraphInv
<1>11. ASSUME untidy' = 0 PROVE TidyObjects' /\ TidyFirst'
  <2>1. ShapeInv /\ TidyObjects /\ TidyFirst /\ untidy = 0
    BY <1>11 DEF ClInv
  <2>2. \A x \in Context \cup Queue \cup Program \cup Mem \cup Event : x \in Live' <=> x \in Live
    BY <1>1, <1>2
  <2>3. \A r \in Queue \cap Live : ToSet(events'[r]) \subseteq Live'
    BY <1>1, <2>1 DEF TidyObjects, TidyQueue
  <2>4. /\ \A b \in Context \cap Live : TidyContext(b)'
        /\ \A r \in Queue \cap Live : TidyQueue(r)'
        /\ \A r \in Program \cap Live : TidyProgram(r)'
        /\ \A j \in Kernel \cap Live : TidyKernel(j)'
        /\ \A m \in Mem \cap Live : TidyMem(m)'
        /\ \A e \in Event \cap Live : TidyEvent(e)'
    <3>1. Context \cap Live' = Context \cap Live /\ Live \subseteq Live' /\ known \subseteq known'
      BY <1>1, <2>2
    <3>2. /\ \A x \in (Queue \cup Kernel) \cap Live : device'[x] = device[x]
          /\ \A x \in Kernel \cap Live : program'[x] = program[x]
      BY <1>1, <1>3
    <3> QED BY <2>1, <2>3, <3>1, <3>2, TidyGrowth
  <2>5. TidyKernel(k)'
    <3>1. entry.device \in Live
      BY <1>4, <2>1, TidyFacts
    <3> QED BY <1>1, <1>3, <3>1 DEF TidyKernel
  <2>6. TidyObjects'
    BY <1>1, <2>2, <2>4, <2>5 DEF TidyObjects
  <2>7. TidyFirst'
    <3>1. cxt' = "live"
      BY <2>1, TidyFacts
    <3>2. Released(Context) => Released(Context)'
      BY ReleasedStays
    <3> QED BY <2>1, <3>1, <3>2 DEF TidyFirst
  <2> QED BY <2>6, <2>7
<1> QED BY <1>7, <1>9, <1>10, <1>11, StillRunning DEF ClInv

\* clCreateKernel: the pointer it may follow that is null is that of the
\* kernel's device to a queue, which the context has not been given.
LEMMA CreateKernelInv ==
  ASSUME ClInv, Running, NEW k \in Kernel \cap New, NEW p \in Handle(Program),
         NEW path \in Path \cup {NULL}, CreateKernel(k, p, path)
  PROVE  ClInv'
<1>1. p \in Program \cap Live /\ path \in DOMAIN functions[p]
  BY DEF CreateKernel, CreateKernelAccepts, Handle
<1> DEFINE entry == functions[p][path]
           q == queue[entry.device]
<1>2. /\ ctx[p] \in Context /\ Born(ctx[p]) /\ ContextInv(ctx[p])
      /\ entry.function # NULL => LoadedFor(entry, ctx[p])
  BY <1>1, LiveFacts DEF ClInv, PointerInv, ProgramInv
<1>3. untidy = 0 => cxt = "live"
  BY <1>1, TidyFacts
<1> HIDE DEF entry
<1>4. CASE Crash("no function")
  BY <1>4, CrashInv DEF Blamed, TidyEnd, Asserted
<1>5. CASE cxt = "deleted" /\ Crash("stale")
  <2>1. Blamed("stale")
    BY <1>3, <1>5 DEF Blamed
  <2> QED BY <1>5, <2>1, CrashInv
<1>6. CASE entry.function # NULL /\ RegisterKernel(k, p, entry)
  <2>1. /\ LoadedFor(entry, ctx[p]) /\ entry.device \in Device \cap devices[ctx[p]]
        /\ q \in Queue \cup {NULL}
    BY <1>2, <1>6 DEF LoadedFor, ClInv, ShapeInv, ClObjTypeOK
  <2>2. q = NULL => queue[ctx[p]] = NULL
    BY <1>2, <2>1 DEF ContextInv
  <2>3. untidy = 0 => entry.device \in Live /\ q \in Live
    BY <1>1, <2>1, TidyFacts
  <2>4. CASE NULL \in {entry.device, q} /\ Crash("null")
    <3>1. q = NULL /\ ctx[p] \in Context \ New /\ queue[ctx[p]] = NULL
      BY <1>2, <2>1, <2>2, <2>4, LiveFacts
    <3>2. Blamed("null")
      BY <2>3, <3>1, LiveFacts DEF Blamed
    <3> QED BY <2>4, <3>2, CrashInv
  <2>5. CASE ~ {entry.device, q} \subseteq Live /\ Crash("stale")
    <3>1. Blamed("stale")
      BY <2>3, <2>5 DEF Blamed
    <3> QED BY <2>5, <3>1, CrashInv
  <2>6. CASE /\ {entry.device, q} \subseteq Live
             /\ Create(k)
             /\ device' = [device EXCEPT ![k] = entry.device]
             /\ program' = [program EXCEPT ![k] = p]
             /\ fn' = [fn EXCEPT ![k] = entry]
             /\ known' = known \cup {k}
             /\ first' = IF first = NULL THEN k ELSE first
             /\ tgx' = [tgx EXCEPT ![q] = AddToGraph(q, <<k>>, {})]
             /\ UNCHANGED <<devices, queue, ctx, unit, functions, users, events, of, waiting,
                            cxt, placed, status, untidy>>
    <3>1. q \in Queue \cap Live
      BY <2>1, <2>6, LiveFacts
    <3> HIDE DEF q
    <3>2. q = queue[entry.device]
      BY DEF q
    <3> QED BY <1>1, <2>1, <2>6, <3>1, <3>2, RegisterKernelInv
  <2> QED BY <1>6, <2>4, <2>5, <2>6 DEF RegisterKernel, Using
<1> QED BY <1>1, <1>4, <1>5, <1>6, LiveFacts DEF CreateKernel, Using, InContext, entry
-----------------------------------------------------------------------------
(***************************************************************************)
(* The calls of buffers and allocation.                                    *)
(***************************************************************************)
\* A buffer is registered, and put into the graph of the context's queue.
LEMMA RegisterBufferInv ==
  ASSUME ClInv, Running, NEW m \in Mem \cap New, NEW c \in Context \cap Live,
         NEW K \in SUBSET (Kernel \cap Live), NEW q \in Queue \cap Live, q = queue[c],
         Create(m), ctx' = [ctx EXCEPT ![m] = c], users' = [users EXCEPT ![m] = K],
         known' = known \cup {m}, tgx' = [tgx EXCEPT ![q] = AddToGraph(q, <<>>, {m})],
         UNCHANGED <<devices, queue, device, program, unit, functions, fn, events, of>>,
         UNCHANGED <<waiting, cxt, first, placed, status, untidy>>
  PROVE  ClInv'
<1>1. /\ life' \in [Object -> {"new", "live", "released"}]
      /\ \A x : x # m => life'[x] = life[x]
      /\ life'[m] = "live" /\ ~ Born(m) /\ m \notin Live
      /\ Live' = Live \cup {m} /\ New' = New \ {m}
      /\ \A x : Born(x) => Born(x)'
      /\ \A x : Born(x)' => Born(x) \/ x = m
  BY CreateFacts DEF ClInv, ShapeInv, ClObjTypeOK
<1>2. m \notin Context \cup Device \cup Queue \cup Program \cup Kernel \cup Event
  BY Kinds
<1>3. /\ \A x \in Queue \cup Program \cup Mem \cup Event : x # m => ctx'[x] = ctx[x]
      /\ ctx'[m] = c
  BY DEF ClInv, ShapeInv, ClObjTypeOK
<1>4. /\ \A r \in Queue : r # q => tgx'[r] = tgx[r]
      /\ tgx'[q] \in TaskGraph /\ tgx'[q] # NULL
      /\ tgx'[q].kernels = GraphOf(q).kernels
      /\ tgx'[q].buffers = GraphOf(q).buffers \cup {m} /\ IsMap(tgx', Queue)
  <2>1. GraphOf(q) \in TaskGraph
        /\ \A k \in Seq(Kernel), M \in SUBSET Mem :
             /\ AddToGraph(q, k, M) \in TaskGraph /\ AddToGraph(q, k, M) # NULL
             /\ AddToGraph(q, k, M).kernels = GraphOf(q).kernels \o k
             /\ AddToGraph(q, k, M).buffers = GraphOf(q).buffers \cup M
    BY GraphFacts DEF ClInv
  <2> DEFINE k == <<>>
             M == {m}
             ks == GraphOf(q).kernels
  <2>2. k \in Seq(Kernel) /\ M \in SUBSET Mem /\ ks \in Seq(Kernel)
    BY <2>1 DEF TaskGraph
  <2> HIDE DEF ks
  <2>3. ks \o <<>> = ks
    BY <2>2
  <2> HIDE DEF k, M
  <2>4. /\ AddToGraph(q, k, M) \in TaskGraph /\ AddToGraph(q, k, M) # NULL
        /\ AddToGraph(q, k, M).kernels = ks \o k
        /\ AddToGraph(q, k, M).buffers = GraphOf(q).buffers \cup M
    BY <2>1, <2>2 DEF ks
  <2>5. tgx'[q] = AddToGraph(q, k, M) /\ IsMap(tgx', Queue)
        /\ \A r \in Queue : r # q => tgx'[r] = tgx[r]
    BY DEF ClInv, ShapeInv, IsMap, k, M
  <2>6. tgx'[q].kernels = ks /\ tgx'[q].buffers = GraphOf(q).buffers \cup {m}
    BY <2>3, <2>4, <2>5 DEF k, M
  <2> QED BY <2>4, <2>5, <2>6 DEF ks
<1>5. ShapeInv'
  <2>1. \A d \in Device : life'[d] # "new" => unit'[d] \in UnitType
    BY <1>1, <1>2 DEF ClInv, ShapeInv, ClObjTypeOK
  <2>2. /\ ctx' \in [UNION {Queue, Program, Mem, Event} -> Context \cup {NULL}]
        /\ users' \in [Mem -> SUBSET Kernel]
    BY DEF ClInv, ShapeInv, ClObjTypeOK
  <2>3. \A r \in Queue : tgx'[r] # NULL =>
          /\ ToSet(tgx'[r].kernels) \subseteq Kernel /\ IsInjective(tgx'[r].kernels)
          /\ tgx'[r].buffers \subseteq Mem
    <3>1. /\ ToSet(GraphOf(q).kernels) \subseteq Kernel /\ GraphOf(q).buffers \subseteq Mem
          /\ IsInjective(GraphOf(q).kernels)
      BY DEF ClInv, ShapeInv, ClObjTypeOK, GraphOf, NoGraph, ToSet, IsInjective
    <3> QED BY <1>4, <3>1 DEF ClInv, ShapeInv, ClObjTypeOK
  <2>4. known' \cup placed' \subseteq Kernel \cup Mem
    BY DEF ClInv, ShapeInv, ClObjTypeOK
  <2>5. ClObjTypeOK'
    BY <1>1, <2>1, <2>2, <2>3, <2>4 DEF ClInv, ShapeInv, ClObjTypeOK
  <2>6. \A r \in Queue : tgx'[r] \in TaskGraph \cup {NULL}
    BY <1>4 DEF ClInv, ShapeInv
  <2> QED BY <1>4, <2>5, <2>6 DEF ClInv, ShapeInv, IsMap
<1>6. PointerInv'
  <2>1. ShapeInv /\ PointerInv
    BY DEF ClInv
  <2>2. \A p \in Program : ctx'[p] = ctx[p]
    BY <1>2, <1>3
  <2>3. /\ \A p \in Program : Born(p) /\ functions'[p] = functions[p] => ProgramInv(p)'
        /\ \A k \in Kernel : Born(k) => KernelInv(k)'
        /\ \A r \in Queue : events'[r] = events[r] /\ tgx'[r] = tgx[r] => QueueInv(r)'
        /\ \A b \in Context : /\ Born(b) /\ queue'[b] = queue[b]
                              /\ \A d \in Device : Born(d) => queue'[d] = queue[d]
                              => ContextInv(b)'
    <3>1. \A x : Born(x) => Born(x)'
      BY <1>1
    <3> QED BY <2>1, <2>2, <3>1, PointerFrame
  <2>4. QueueInv(q)'
    <3>1. \A j \in ToSet(GraphOf(q).kernels) : Born(j)
      BY <2>1 DEF PointerInv, QueueInv, GraphOf, NoGraph, ToSet
    <3>2. \A e \in ToSet(events[q]) : Born(e)'
      BY <1>1, <2>1 DEF PointerInv, QueueInv
    <3> QED BY <1>1, <1>4, <3>1, <3>2 DEF QueueInv
  <2>5. \A x \in Context \cup Program \cup Kernel : Born(x)' => Born(x)
    BY <1>1, <1>2
  <2> QED BY <1>4, <2>3, <2>4, <2>5 DEF PointerInv
<1>7. GraphInv'
  <2>1. /\ GraphOf(q)'.buffers = GraphOf(q).buffers \cup {m}
        /\ GraphOf(q)'.kernels = GraphOf(q).kernels
        /\ \A r \in Queue : r # q => GraphOf(r)' = GraphOf(r)
    BY <1>4 DEF GraphOf
  <2>2. /\ Born(q) /\ Born(m)' /\ known' = known \cup {m} /\ m \notin Kernel
        /\ \A x : Born(x) => Born(x)'
    BY <1>1, <1>2, LiveFacts DEF Born
  <2>3. ASSUME NEW j \in Kernel, Born(j)'
        PROVE  \E r \in Queue : Born(r)' /\ j \in ToSet(GraphOf(r)'.kernels)
    BY <1>1, <1>2, <2>1, <2>2, <2>3 DEF ClInv, GraphInv
  <2>4. ASSUME NEW b \in known' \cap Mem
        PROVE  \E r \in Queue : Born(r)' /\ b \in GraphOf(r)'.buffers
    <3>1. CASE b = m
      BY <2>1, <2>2, <3>1
    <3>2. CASE b # m
      BY <2>1, <2>2, <2>4, <3>2 DEF ClInv, GraphInv
    <3> QED BY <3>1, <3>2
  <2>5. \A r \in Queue : \A b \in GraphOf(r)'.buffers : Born(b)'
    BY <2>1, <2>2 DEF ClInv, GraphInv
  <2>6. \A k \in known' \cap Kernel : Born(k)'
    BY <2>2 DEF ClInv, GraphInv
  <2>7. \A b \in Mem : \A k \in users'[b] : Born(k)'
    <3>1. \A b \in Mem : users'[b] = IF b = m THEN K ELSE users[b]
      BY DEF ClInv, ShapeInv, ClObjTypeOK
    <3> QED BY <2>2, <3>1, LiveFacts DEF ClInv, GraphInv
  <2> QED BY <2>3, <2>4, <2>5, <2>6, <2>7 DEF GraphInv
<1>8. ASSUME untidy' = 0 PROVE TidyObjects' /\ TidyFirst'
  <2>1. ShapeInv /\ TidyObjects /\ TidyFirst /\ untidy = 0
    BY <1>8 DEF ClInv
  <2>2. \A x \in Context \cup Queue \cup Program \cup Kernel \cup Event :
          x \in Live' <=> x \in Live
    BY <1>1, <1>2
  <2>3. \A r \in Queue \cap Live : ToSet(events'[r]) \subseteq Live'
    BY <1>1, <2>1 DEF TidyObjects, TidyQueue
  <2>4. /\ \A b \in Context \cap Live : TidyContext(b)'
        /\ \A r \in Queue \cap Live : TidyQueue(r)'
        /\ \A p \in Program \cap Live : TidyProgram(p)'
        /\ \A k \in Kernel \cap Live : TidyKernel(k)'
        /\ \A b \in Mem \cap Live : TidyMem(b)'
        /\ \A e \in Event \cap Live : TidyEvent(e)'
    <3>1. Context \cap Live' = Context \cap Live /\ Live \subseteq Live' /\ known \subseteq known'
      BY <1>1, <2>2
    <3>2. \A x \in (Queue \cup Program \cup Mem \cup Event) \cap Live : ctx'[x] = ctx[x]
      BY <1>1, <1>3
    <3> QED BY <2>1, <2>3, <3>1, <3>2, TidyGrowth
  <2>5. TidyMem(m)'
    BY <1>1, <1>3 DEF TidyMem
  <2>6. TidyObjects'
    BY <1>1, <2>2, <2>4, <2>5 DEF TidyObjects
  <2>7. Released(Context) => Released(Context)'
    BY ReleasedStays
  <2>8. TidyFirst'
    BY <2>1, <2>7 DEF TidyFirst
  <2> QED BY <2>6, <2>8
<1> QED BY <1>5, <1>6, <1>7, <1>8, StillRunning DEF ClInv

\* clCreateBuffer: the pointer it may follow that is null is that of the context
\* to a queue.
LEMMA CreateBufferInv ==
  ASSUME ClInv, Running, NEW m \in Mem \cap New, NEW c \in Handle(Context), NEW flags,
         NEW in \in SUBSET Handle(Kernel), NEW out \in SUBSET Handle(Kernel),
         CreateBuffer(m, c, flags, in, out)
  PROVE  ClInv'
<1>0. CASE Crash("null argument")
  BY <1>0, CrashInv DEF Blamed, TidyEnd
<1> DEFINE K == KernelsFor(flags, in, out)
           q == queue[c]
<1> SUFFICES ASSUME NULL \notin in \cup out, K # {}, InContext(RegisterBuffer(m, c, K))
             PROVE  ClInv'
  BY <1>0 DEF CreateBuffer, UnlessPassedNull
<1>1. c \in Context \cap Live /\ K # {}
  BY DEF CreateBuffer, Handle
<1>2. K \subseteq Kernel \cap Live
  BY DEF KernelsFor, Handle
<1> HIDE DEF K
<1>3. untidy = 0 => cxt = "live" /\ q \in Live
  <2> SUFFICES ASSUME untidy = 0 PROVE cxt = "live" /\ q \in Live
    OBVIOUS
  <2>1. PICK k \in Kernel \cap Live : TRUE
    BY <1>1, <1>2
  <2>2. program[k] \in Program \cap Live
    BY TidyFacts
  <2>3. ctx[program[k]] \in Context \cap Live /\ queue[ctx[program[k]]] \in Live
    BY <2>2, TidyFacts
  <2>4. cxt = "live" /\ ctx[program[k]] = c
    BY <1>1, <2>3 DEF ClInv, TidyObjects, TidyContext
  <2> QED BY <2>3, <2>4
<1>4. CASE cxt = "deleted" /\ Crash("stale")
  <2>1. Blamed("stale")
    BY <1>3, <1>4 DEF Blamed
  <2> QED BY <1>4, <2>1, CrashInv
<1>5. CASE NULL \in {q} /\ Crash("null")
  <2>1. c \in Context \ New /\ queue[c] = NULL
    BY <1>1, <1>5, LiveFacts
  <2>2. Blamed("null")
    BY <1>3, <1>5, <2>1, LiveFacts DEF Blamed
  <2> QED BY <1>5, <2>2, CrashInv
<1>6. CASE ~ {q} \subseteq Live /\ Crash("stale")
  <2>1. Blamed("stale")
    BY <1>3, <1>6 DEF Blamed
  <2> QED BY <1>6, <2>1, CrashInv
<1>7. CASE /\ {q} \subseteq Live
           /\ Create(m)
           /\ ctx' = [ctx EXCEPT ![m] = c]
           /\ users' = [users EXCEPT ![m] = K]
           /\ known' = known \cup {m}
           /\ tgx' = [tgx EXCEPT ![q] = AddToGraph(q, <<>>, {m})]
           /\ UNCHANGED <<devices, queue, device, program, unit, functions, fn, events, of,
                          waiting, cxt, first, placed, status, untidy>>
  <2>1. q \in Queue \cup {NULL}
    BY <1>1 DEF ClInv, ShapeInv, ClObjTypeOK
  <2>2. q \in Queue \cap Live
    BY <1>7, <2>1, LiveFacts
  <2>3. K \in SUBSET (Kernel \cap Live)
    BY <1>2
  <2> HIDE DEF q
  <2>4. q = queue[c]
    BY DEF q
  <2> QED BY <1>1, <1>7, <2>2, <2>3, <2>4, RegisterBufferInv
<1> QED BY <1>4, <1>5, <1>6, <1>7 DEF InContext, RegisterBuffer, Using

\* A step that changes no pointer, no graph and no object.
LEMMA FrameInv ==
  ASSUME ClInv, Running,
         UNCHANGED <<life, devices, queue, ctx, device, program, unit, functions, fn, users>>,
         UNCHANGED <<of, cxt, known, first, tgx, status, untidy>>,
         placed' \subseteq Kernel \cup Mem, waiting' \subseteq Event,
         events' \in [Queue -> Seq(Event)],
         \A q \in Queue : events'[q] = events[q] \/ events'[q] = <<>>
  PROVE  ClInv'
<1>1. \A q \in Queue : /\ ToSet(events'[q]) \subseteq ToSet(events[q])
                       /\ IsInjective(events'[q])
  <2>1. ToSet(<<>>) = {} /\ IsInjective(<<>>)
    BY DEF ToSet, IsInjective
  <2> QED BY <2>1 DEF ClInv, ShapeInv, ClObjTypeOK
<1>2. ShapeInv'
  <2>1. \A q \in Queue : ToSet(events'[q]) \subseteq Event /\ IsInjective(events'[q])
    BY <1>1 DEF ClInv, ShapeInv, ClObjTypeOK
  <2>2. ClObjTypeOK'
    BY <2>1 DEF ClInv, ShapeInv, ClObjTypeOK
  <2> QED BY <2>2 DEF ClInv, ShapeInv, IsMap
<1>3. PointerInv'
  <2>1. ShapeInv /\ PointerInv /\ \A x : Born(x)' <=> Born(x)
    BY DEF ClInv, Born
  <2>2. /\ \A p \in Program : Born(p) /\ functions'[p] = functions[p] => ProgramInv(p)'
        /\ \A k \in Kernel : Born(k) => KernelInv(k)'
        /\ \A b \in Context : /\ Born(b) /\ queue'[b] = queue[b]
                              /\ \A d \in Device : Born(d) => queue'[d] = queue[d]
                              => ContextInv(b)'
    BY <2>1, PointerFrame
  <2>3. \A q \in Queue : QueueInv(q)'
    BY <1>1, <2>1 DEF PointerInv, QueueInv
  <2> QED BY <2>1, <2>2, <2>3 DEF PointerInv
<1>4. GraphInv'
  BY DEF ClInv, GraphInv, GraphOf, Born
<1>5. ASSUME untidy' = 0 PROVE TidyObjects' /\ TidyFirst'
  <2>1. TidyObjects /\ TidyFirst /\ Live' = Live
    BY <1>5 DEF ClInv, Live
  <2>2. \A q \in Queue \cap Live' : TidyQueue(q)'
    BY <1>1, <2>1 DEF TidyObjects, TidyQueue
  <2>3. TidyObjects'
    BY <2>1, <2>2 DEF TidyObjects, TidyContext, TidyProgram, TidyKernel, TidyMem, TidyEvent
  <2>4. TidyFirst'
    BY <2>1 DEF TidyFirst, Released
  <2> QED BY <2>3, <2>4
<1> QED BY <1>2, <1>3, <1>4, <1>5, StillRunning DEF ClInv

\* clKernelAndBufferAllocation
LEMMA AllocationInv ==
  ASSUME ClInv, Running, NEW h \in Handle(Queue), KernelAndBufferAllocation(h)
  PROVE  ClInv'
<1>0. CASE Crash("null argument")
  BY <1>0, CrashInv DEF Blamed, TidyEnd
<1> SUFFICES ASSUME NEW q \in Queue \cap Live, InContext(Allocate(GraphOf(q))) PROVE ClInv'
  BY <1>0 DEF KernelAndBufferAllocation, UnlessPassedNull, Handle
<1> DEFINE g == GraphOf(q)
<1>1. CASE cxt = "deleted" /\ Crash("stale")
  <2>1. untidy # 0
    BY <1>1, TidyFacts
  <2>2. Blamed("stale")
    BY <2>1 DEF Blamed
  <2> QED BY <1>1, <2>2, CrashInv
<1>2. CASE AllocationFault(g) # "none" /\ Crash(AllocationFault(g))
  <2>1. AllocationFault(g) \in {"no kernel", "no buffer", "no register", "mixed units",
                                "stray kernel", "none"}
    BY DEF AllocationFault
  <2>2. ASSUME AllocationFault(g) = "no register", untidy = 0 PROVE Released(Mem)
    <3>1. ~ g.buffers \subseteq known \cup placed
      BY <2>2 DEF AllocationFault
    <3>2. PICK m \in g.buffers : m \notin known
      BY <3>1
    <3>3. m \in Mem /\ Born(m)
      BY GraphFacts DEF ClInv, GraphInv, TaskGraph
    <3>4. m \notin Live
      BY <2>2, <3>2, <3>3, TidyFacts
    <3> QED BY <3>3, <3>4 DEF Released, Live, Born, ClInv, ShapeInv, ClObjTypeOK
  <2>3. ASSUME AllocationFault(g) = "stray kernel" PROVE \E r, t \in Queue \ New : r # t
    <3>1. ~ ((UNION {users[m] : m \in g.buffers}) \cup (known \cap Kernel)) \subseteq ToSet(g.kernels)
      BY <2>3 DEF AllocationFault
    <3>2. g.buffers \subseteq Mem
      BY GraphFacts DEF ClInv, TaskGraph
    <3>3. \A m \in g.buffers : \A k \in users[m] : k \in Kernel /\ Born(k)
      BY <3>2 DEF ClInv, GraphInv, ShapeInv, ClObjTypeOK
    <3>4. PICK k \in Kernel : Born(k) /\ k \notin ToSet(g.kernels)
      BY <3>1, <3>3 DEF ClInv, GraphInv
    <3>5. PICK r \in Queue : Born(r) /\ k \in ToSet(GraphOf(r).kernels)
      BY <3>4 DEF ClInv, GraphInv
    <3> QED BY <3>4, <3>5, LiveFacts
  <2>4. Blamed(AllocationFault(g))
    BY <1>2, <2>1, <2>2, <2>3 DEF Blamed, TidyEnd, Asserted
  <2> QED BY <1>2, <2>4, CrashInv
<1>3. CASE /\ placed' = placed \cup ToSet(g.kernels) \cup g.buffers
           /\ UNCHANGED <<life, pointers, content, cxt, known, first, tgx, status, untidy>>
  <2>1. ToSet(g.kernels) \subseteq Kernel /\ g.buffers \subseteq Mem
    BY DEF ClInv, ShapeInv, ClObjTypeOK, GraphOf, NoGraph, ToSet
  <2>2. placed' \subseteq Kernel \cup Mem
    BY <1>3, <2>1 DEF ClInv, ShapeInv, ClObjTypeOK
  <2>3. /\ UNCHANGED <<life, devices, queue, ctx, device, program, unit, functions, fn, users>>
        /\ UNCHANGED <<of, cxt, known, first, tgx, status, untidy, events, waiting>>
    BY <1>3 DEF pointers, content
  <2>4. waiting' \subseteq Event /\ events' \in [Queue -> Seq(Event)]
    BY <2>3 DEF ClInv, ShapeInv
  <2> QED BY <2>2, <2>3, <2>4, FrameInv
<1> QED BY <1>1, <1>2, <1>3 DEF Allocate, InContext
-----------------------------------------------------------------------------
(***************************************************************************)
(* The calls of commands and events.                                       *)
(***************************************************************************)
\* An event of a kernel or a buffer is made, and may enter its queue.
LEMMA NewEventInv ==
  ASSUME ClInv, Running, NEW e \in Event \cap New, NEW q \in Queue \cap Live,
         NEW o \in (Kernel \cup Mem) \cap Live,
         Create(e), ctx' = [ctx EXCEPT ![e] = ctx[q]], queue' = [queue EXCEPT ![e] = q],
         of' = [of EXCEPT ![e] = o], waiting' \subseteq Event,
         events' = events \/ events' = [events EXCEPT ![q] = Append(@, e)],
         UNCHANGED <<devices, device, program, unit, functions, fn, users>>,
         UNCHANGED <<cxt, known, first, placed, tgx, status, untidy>>
  PROVE  ClInv'
<1>1. /\ life' \in [Object -> {"new", "live", "released"}]
      /\ \A x : x # e => life'[x] = life[x]
      /\ life'[e] = "live" /\ ~ Born(e) /\ e \notin Live
      /\ Live' = Live \cup {e} /\ New' = New \ {e}
      /\ \A x : Born(x) => Born(x)'
      /\ \A x : Born(x)' => Born(x) \/ x = e
  BY CreateFacts DEF ClInv, ShapeInv, ClObjTypeOK
<1>2. e \notin Context \cup Device \cup Queue \cup Program \cup Kernel \cup Mem
  BY Kinds
<1>3. /\ \A x \in Queue \cup Program \cup Mem \cup Event : x # e => ctx'[x] = ctx[x]
      /\ \A x \in Context \cup Device \cup Event : x # e => queue'[x] = queue[x]
      /\ \A x \in Event : x # e => of'[x] = of[x]
      /\ ctx'[e] = ctx[q] /\ queue'[e] = q /\ of'[e] = o
  BY DEF ClInv, ShapeInv, ClObjTypeOK
<1>4. /\ events' \in [Queue -> Seq(Event)]
      /\ \A r \in Queue : /\ ToSet(events'[r]) \subseteq ToSet(events[r]) \cup {e}
                          /\ IsInjective(events'[r])
                          /\ \A x \in ToSet(events[r]) : Born(x)
  <2>1. events \in [Queue -> Seq(Event)]
        /\ \A r \in Queue : /\ IsInjective(events[r])
                            /\ \A x \in ToSet(events[r]) : Born(x)
    BY DEF ClInv, ShapeInv, ClObjTypeOK, PointerInv, QueueInv
  <2> DEFINE s == events[q]
  <2>2. s \in Seq(Event) /\ IsInjective(s) /\ e \notin ToSet(s)
    BY <1>1, <2>1
  <2> HIDE DEF s
  <2>3. /\ Append(s, e) \in Seq(Event) /\ IsInjective(Append(s, e))
        /\ ToSet(Append(s, e)) = ToSet(s) \cup {e}
    BY <2>2, AppendNew
  <2>4. CASE events' = events
    BY <2>1, <2>4
  <2>5. CASE events' = [events EXCEPT ![q] = Append(@, e)]
    <3>1. events' = [events EXCEPT ![q] = Append(s, e)]
      BY <2>5 DEF s
    <3>2. events' \in [Queue -> Seq(Event)]
      BY <2>1, <2>3, <3>1
    <3>3. \A r \in Queue : events'[r] = IF r = q THEN Append(s, e) ELSE events[r]
      BY <2>1, <3>1
    <3> QED BY <2>1, <2>3, <3>2, <3>3 DEF s
  <2> QED BY <2>4, <2>5
<1>5. ShapeInv'
  <2>1. \A d \in Device : life'[d] # "new" => unit'[d] \in UnitType
    BY <1>1, <1>2 DEF ClInv, ShapeInv, ClObjTypeOK
  <2>2. ctx[q] \in Context \cup {NULL}
    BY DEF ClInv, ShapeInv, ClObjTypeOK
  <2>3. /\ ctx' \in [UNION {Queue, Program, Mem, Event} -> Context \cup {NULL}]
        /\ queue' \in [Context \cup Device \cup Event -> Queue \cup {NULL}]
    BY <2>2 DEF ClInv, ShapeInv, ClObjTypeOK
  <2>4. \A r \in Queue : ToSet(events'[r]) \subseteq Event /\ IsInjective(events'[r])
    BY <1>4 DEF ClInv, ShapeInv, ClObjTypeOK
  <2>5. ClObjTypeOK'
    BY <1>1, <2>1, <2>3, <2>4 DEF ClInv, ShapeInv, ClObjTypeOK
  <2>6. of' \in [Event -> Kernel \cup Mem \cup {NULL}]
    BY DEF ClInv, ShapeInv
  <2> QED BY <1>4, <2>5, <2>6 DEF ClInv, ShapeInv, IsMap
<1>6. PointerInv'
  <2>1. ShapeInv /\ PointerInv
    BY DEF ClInv
  <2>2. /\ \A p \in Program : ctx'[p] = ctx[p]
        /\ \A x \in Context \cup Device : queue'[x] = queue[x]
    BY <1>2, <1>3
  <2>3. /\ \A p \in Program : Born(p) /\ functions'[p] = functions[p] => ProgramInv(p)'
        /\ \A k \in Kernel : Born(k) => KernelInv(k)'
        /\ \A b \in Context : /\ Born(b) /\ queue'[b] = queue[b]
                              /\ \A d \in Device : Born(d) => queue'[d] = queue[d]
                              => ContextInv(b)'
    <3>1. \A x : Born(x) => Born(x)'
      BY <1>1
    <3> QED BY <2>1, <2>2, <3>1, PointerFrame
  <2>4. \A r \in Queue : QueueInv(r)'
    <3>1. Born(e)'
      BY <1>1 DEF Born
    <3>2. \A r \in Queue : \A x \in ToSet(events'[r]) : Born(x)'
      BY <1>1, <1>4, <3>1
    <3>3. \A r \in Queue : tgx[r] # NULL => \A k \in ToSet(tgx[r].kernels) : Born(k)'
      BY <1>1, <2>1 DEF PointerInv, QueueInv
    <3> QED BY <3>2, <3>3 DEF QueueInv
  <2>5. \A x \in Context \cup Program \cup Kernel : Born(x)' => Born(x)
    BY <1>1, <1>2
  <2> QED BY <2>2, <2>3, <2>4, <2>5 DEF PointerInv
<1>7. GraphInv'
  BY <1>1, <1>2 DEF ClInv, GraphInv, GraphOf
<1>8. ASSUME untidy' = 0 PROVE TidyObjects' /\ TidyFirst'
  <2>1. ShapeInv /\ TidyObjects /\ TidyFirst /\ untidy = 0
    BY <1>8 DEF ClInv
  <2>2. \A x \in Context \cup Queue \cup Program \cup Kernel \cup Mem : x \in Live' <=> x \in Live
    BY <1>1, <1>2
  <2>3. \A r \in Queue \cap Live : ToSet(events'[r]) \subseteq Live'
    BY <1>1, <1>4, <2>1 DEF TidyObjects, TidyQueue
  <2>4. /\ \A b \in Context \cap Live : TidyContext(b)'
        /\ \A r \in Queue \cap Live : TidyQueue(r)'
        /\ \A p \in Program \cap Live : TidyProgram(p)'
        /\ \A k \in Kernel \cap Live : TidyKernel(k)'
        /\ \A b \in Mem \cap Live : TidyMem(b)'
        /\ \A x \in Event \cap Live : TidyEvent(x)'
    <3>1. Context \cap Live' = Context \cap Live /\ Live \subseteq Live'
      BY <1>1, <2>2
    <3>2. /\ \A x \in (Queue \cup Program \cup Mem \cup Event) \cap Live : ctx'[x] = ctx[x]
          /\ \A x \in (Context \cup Device \cup Event) \cap Live : queue'[x] = queue[x]
          /\ \A x \in Event \cap Live : of'[x] = of[x]
      BY <1>1, <1>3
    <3> QED BY <2>1, <2>3, <3>1, <3>2, TidyGrowth
  <2>5. TidyEvent(e)'
    <3>1. ctx[q] \in Live
      BY <2>1, TidyFacts
    <3> QED BY <1>1, <1>3, <3>1 DEF TidyEvent
  <2>6. TidyObjects'
    BY <1>1, <2>2, <2>4, <2>5 DEF TidyObjects
  <2>7. Released(Context) => Released(Context)'
    BY ReleasedStays
  <2>8. TidyFirst'
    BY <2>1, <2>7 DEF TidyFirst
  <2> QED BY <2>6, <2>8
<1> QED BY <1>5, <1>6, <1>7, <1>8, StillRunning DEF ClInv

\* A command enters its queue.
LEMMA EnqueueInv ==
  ASSUME ClInv, Running, NEW e \in Event \cap New, NEW q \in Queue \cap Live,
         NEW o \in (Kernel \cup Mem) \cap Live, NEW W \in SUBSET (Event \cap Live),
         Enqueue(e, q, o, W)
  PROVE  ClInv'
<1>1. waiting' \subseteq Event
  BY DEF Enqueue, ClInv, ShapeInv
<1>2. /\ Create(e) /\ ctx' = [ctx EXCEPT ![e] = ctx[q]] /\ queue' = [queue EXCEPT ![e] = q]
      /\ of' = [of EXCEPT ![e] = o] /\ events' = [events EXCEPT ![q] = Append(@, e)]
      /\ UNCHANGED <<devices, device, program, unit, functions, fn, users>>
      /\ UNCHANGED <<cxt, known, first, placed, tgx, status, untidy>>
  BY DEF Enqueue, host
<1> QED BY <1>1, <1>2, NewEventInv

\* The host's context is not deleted under a tidy program that waits, and it
\* knows what is waited for.
LEMMA WaitInv ==
  ASSUME ClInv, Running, NEW W \in SUBSET (Event \cap Live), NEW Effect \in BOOLEAN,
         Wait(W, Effect)
  PROVE  ClInv' \/ Effect
<1>1. CASE cxt = "deleted" /\ W # {} /\ Crash("stale")
  <2>1. untidy # 0
    BY <1>1, TidyFacts
  <2>2. Blamed("stale")
    BY <2>1 DEF Blamed
  <2> QED BY <1>1, <2>2, CrashInv
<1>2. CASE ~ {of[e] : e \in W \cap waiting} \subseteq known /\ Crash("unknown id")
  <2>1. untidy # 0
    <3>1. PICK e \in Event \cap Live : of[e] \notin known
      BY <1>2
    <3> QED BY <3>1, TidyFacts
  <2>2. Blamed("unknown id")
    BY <2>1 DEF Blamed
  <2> QED BY <1>2, <2>2, CrashInv
<1> QED BY <1>1, <1>2 DEF Wait, InContext

\* clWaitForEvents
LEMMA WaitForEventsInv ==
  ASSUME ClInv, Running, NEW W \in SUBSET (Event \cap Live), WaitForEvents(W)
  PROVE  ClInv'
<1> DEFINE Effect == /\ waiting' = waiting \ W
                     /\ UNCHANGED <<life, pointers, unit, functions, fn, users, events, of,
                                    host, status, untidy>>
<1>1. Effect \in BOOLEAN /\ Wait(W, Effect)
  BY DEF WaitForEvents
<1>2. CASE Effect
  <2>1. /\ UNCHANGED <<life, devices, queue, ctx, device, program, unit, functions, fn, users>>
        /\ UNCHANGED <<of, cxt, known, first, tgx, status, untidy, events, placed>>
        /\ waiting' \subseteq waiting
    BY <1>2 DEF pointers, host
  <2>2. /\ placed' \subseteq Kernel \cup Mem /\ waiting' \subseteq Event
        /\ events' \in [Queue -> Seq(Event)]
    BY <2>1 DEF ClInv, ShapeInv, ClObjTypeOK
  <2> QED BY <2>1, <2>2, FrameInv
<1> HIDE DEF Effect
<1> QED BY <1>1, <1>2, WaitInv

\* clFinish
LEMMA FinishInv ==
  ASSUME ClInv, Running, NEW q \in Handle(Queue), Finish(q)
  PROVE  ClInv'
<1>1. q \in Queue \cap Live
  BY DEF Finish, Handle
<1> DEFINE W == ToSet(events[q])
           Effect == /\ waiting' = waiting \ W
                     /\ events' = [events EXCEPT ![q] = <<>>]
                     /\ UNCHANGED <<life, pointers, unit, functions, fn, users, of,
                                    host, status, untidy>>
<1>2. W \subseteq Event /\ NULL \notin W
  <2>1. W \subseteq Event
    BY <1>1 DEF ClInv, ShapeInv, ClObjTypeOK
  <2> QED BY <2>1, LiveFacts
<1>3. CASE Effect
  <2>1. /\ UNCHANGED <<life, devices, queue, ctx, device, program, unit, functions, fn, users>>
        /\ UNCHANGED <<of, cxt, known, first, tgx, status, untidy, placed>>
        /\ waiting' \subseteq waiting
    BY <1>3 DEF pointers, host
  <2>2. placed' \subseteq Kernel \cup Mem /\ waiting' \subseteq Event
    BY <2>1 DEF ClInv, ShapeInv, ClObjTypeOK
  <2>3. events' = [events EXCEPT ![q] = <<>>] /\ <<>> \in Seq(Event)
        /\ events \in [Queue -> Seq(Event)]
    BY <1>3 DEF ClInv, ShapeInv
  <2>4. /\ events' \in [Queue -> Seq(Event)]
        /\ \A r \in Queue : events'[r] = events[r] \/ events'[r] = <<>>
    BY <2>3
  <2> QED BY <2>1, <2>2, <2>4, FrameInv
<1>4. CASE ~ W \subseteq Live /\ Crash("stale")
  <2>1. untidy # 0
    BY <1>1, <1>4, TidyFacts
  <2>2. Blamed("stale")
    BY <2>1 DEF Blamed
  <2> QED BY <1>4, <2>2, CrashInv
<1>5. CASE W \subseteq Live /\ Wait(W, Effect)
  <2>1. Effect \in BOOLEAN
    OBVIOUS
  <2> HIDE DEF Effect, W
  <2>2. W \in SUBSET (Event \cap Live)
    BY <1>2, <1>5
  <2> QED BY <1>3, <1>5, <2>1, <2>2, WaitInv
<1> QED BY <1>2, <1>4, <1>5 DEF Finish, Using

\* clEnqueueWriteBuffer and clEnqueueReadBuffer
LEMMA EnqueueTransferInv ==
  ASSUME ClInv, Running, NEW e \in Event \cap New, NEW q \in Handle(Queue),
         NEW m \in Handle(Mem), NEW W \in SUBSET Handle(Event), EnqueueTransfer(e, q, m, W)
  PROVE  ClInv'
<1>0. CASE Crash("null argument")
  BY <1>0, CrashInv DEF Blamed, TidyEnd
<1> SUFFICES ASSUME NULL \notin W, ~ Crash("null argument") PROVE ClInv'
  BY <1>0 DEF EnqueueTransfer, UnlessPassedNull
<1>a. W \in SUBSET (Event \cap Live)
  BY DEF Handle
<1>1. q \in Queue \cap Live /\ m \in Mem \cap Live
  BY DEF EnqueueTransfer, Handle
<1> DEFINE Effect == InContext(Transfer(e, q, m, W))
<1>2. CASE cxt = "deleted" /\ Crash("stale")
  <2>1. untidy # 0
    BY <1>1, <1>2, TidyFacts
  <2>2. Blamed("stale")
    BY <2>1 DEF Blamed
  <2> QED BY <1>2, <2>2, CrashInv
<1>3. CASE m \notin known /\ Crash("unknown id")
  <2>1. untidy # 0
    BY <1>1, <1>3, TidyFacts
  <2>2. Blamed("unknown id")
    BY <2>1 DEF Blamed
  <2> QED BY <1>3, <2>2, CrashInv
<1>4. CASE m \in known /\ m \notin placed /\ Crash("not placed")
  BY <1>4, CrashInv DEF Blamed, TidyEnd
<1>5. CASE Enqueue(e, q, m, W)
  BY <1>1, <1>5, <1>a, EnqueueInv
<1>6. Effect => ClInv'
  BY <1>2, <1>3, <1>4, <1>5 DEF InContext, Transfer
<1>7. Effect \in BOOLEAN
  BY DEF InContext, Transfer, Crash, Enqueue
<1>8. Wait(W, Effect)
  BY DEF EnqueueTransfer, UnlessPassedNull
<1> HIDE DEF Effect
<1> QED BY <1>6, <1>7, <1>8, <1>a, WaitInv

\* clEnqueueTask and clEnqueueNDRangeKernel: the event with id 0 is that of a
\* kernel, which only the end of its context makes unknown.
LEMMA EnqueueTaskInv ==
  ASSUME ClInv, Running, NEW e \in Event \cap New, NEW q \in Handle(Queue),
         NEW k \in Handle(Kernel), NEW W \in SUBSET Handle(Event), EnqueueTask(e, q, k, W)
  PROVE  ClInv'
<1>1. q \in Queue \cap Live /\ k \in Kernel \cap Live
  BY DEF EnqueueTask, Handle
<1>2. program[k] # NULL /\ first # NULL
  BY <1>1, LiveFacts DEF ClInv, PointerInv, KernelInv
<1> DEFINE Effect == InContext(StartKernel(e, q, k, W))
<1>0. CASE Crash("null argument")
  BY <1>0, CrashInv DEF Blamed, TidyEnd
<1>3. CASE (cxt = "deleted" \/ program[k] \notin Live) /\ Crash("stale")
  <2>1. untidy # 0
    BY <1>1, <1>3, TidyFacts
  <2>2. Blamed("stale")
    BY <2>1 DEF Blamed
  <2> QED BY <1>3, <2>2, CrashInv
<1>4. CASE k \notin known /\ Crash("unknown id")
  <2>1. untidy # 0
    BY <1>1, <1>4, TidyFacts
  <2>2. Blamed("unknown id")
    BY <2>1 DEF Blamed
  <2> QED BY <1>4, <2>2, CrashInv
<1>5. CASE first \notin known /\ Crash("no event 0")
  <2>1. untidy = 0 => Released(Context)
    BY <1>2, <1>5 DEF ClInv, TidyFirst
  <2>2. Blamed("no event 0")
    BY <2>1 DEF Blamed, TidyEnd
  <2> QED BY <1>5, <2>2, CrashInv
<1>6. CASE k \in known /\ k \notin placed /\ Crash("not placed")
  BY <1>6, CrashInv DEF Blamed, TidyEnd
<1>7. ASSUME NULL \notin W, Enqueue(e, q, k, W) PROVE ClInv'
  <2>1. W \in SUBSET (Event \cap Live)
    BY <1>7 DEF Handle
  <2> QED BY <1>1, <1>7, <2>1, EnqueueInv
<1>8. NULL \notin W /\ Effect => ClInv'
  BY <1>3, <1>4, <1>5, <1>6, <1>7 DEF InContext, StartKernel
<1>9. Effect \in BOOLEAN
  BY DEF InContext, StartKernel, Crash, Enqueue
<1>10. \/ NULL \notin W /\ Wait(W, Effect)
       \/ Crash("null argument")
       \/ program[k] \notin Live /\ Crash("stale")
  BY <1>2 DEF EnqueueTask, Using, UnlessPassedNull
<1>11. NULL \notin W => W \in SUBSET (Event \cap Live)
  BY DEF Handle
<1> HIDE DEF Effect
<1> QED BY <1>0, <1>3, <1>8, <1>9, <1>10, <1>11, WaitInv

\* clSetKernelArg of an event.
LEMMA SetKernelArgEventInv ==
  ASSUME ClInv, Running, NEW e \in Event \cap New, NEW k \in Handle(Kernel),
         NEW m \in Mem \cap Live, SetKernelArgEvent(e, k, m)
  PROVE  ClInv'
<1> DEFINE q == queue[device[k]]
           c == ctx[program[k]]
<1>1. k \in Kernel \cap Live
  BY DEF SetKernelArgEvent, Handle
<1>2. /\ c \in Context /\ Born(c) /\ device[k] \in Device /\ q \in Queue \cup {NULL}
      /\ q = NULL => queue[c] = NULL
  <2>1. KernelInv(k)
    BY <1>1, LiveFacts DEF ClInv, PointerInv
  <2>2. program[k] \in Program /\ ProgramInv(program[k])
    BY <2>1 DEF KernelInv, ClInv, PointerInv
  <2>3. ContextInv(c) /\ device[k] \in Device \cap devices[c]
    BY <2>1, <2>2 DEF KernelInv, ProgramInv, ClInv, PointerInv
  <2> QED BY <2>2, <2>3 DEF ProgramInv, ContextInv, ClInv, ShapeInv, ClObjTypeOK
<1>3. untidy = 0 => /\ device[k] \in Live /\ q \in Live /\ cxt = "live"
                    /\ m \in known /\ k \in known
  BY <1>1, TidyFacts
<1> HIDE DEF c
<1>4. CASE NULL \in {device[k], q} /\ Crash("null")
  <2>1. c \in Context \ New /\ queue[c] = NULL
    BY <1>2, <1>4, LiveFacts
  <2>2. Blamed("null")
    BY <1>2, <1>3, <1>4, <2>1, LiveFacts DEF Blamed
  <2> QED BY <1>4, <2>2, CrashInv
<1>5. CASE (cxt = "deleted" \/ ~ {device[k], q} \subseteq Live) /\ Crash("stale")
  <2>1. Blamed("stale")
    BY <1>3, <1>5 DEF Blamed
  <2> QED BY <1>5, <2>1, CrashInv
<1>6. CASE (m \notin known \/ k \notin known) /\ Crash("unknown id")
  <2>1. Blamed("unknown id")
    BY <1>3, <1>6 DEF Blamed
  <2> QED BY <1>6, <2>1, CrashInv
<1>7. CASE /\ {device[k], q} \subseteq Live
           /\ Create(e)
           /\ ctx' = [ctx EXCEPT ![e] = ctx[q]]
           /\ queue' = [queue EXCEPT ![e] = q]
           /\ of' = [of EXCEPT ![e] = m]
           /\ waiting' = waiting \cup {e}
           /\ UNCHANGED <<devices, device, program, unit, functions, fn, users, events,
                          host, status, untidy>>
  <2>1. q \in Queue \cap Live
    BY <1>2, <1>7, LiveFacts
  <2>2. waiting' \subseteq Event
    BY <1>7 DEF ClInv, ShapeInv
  <2>3. /\ UNCHANGED <<devices, device, program, unit, functions, fn, users>>
        /\ UNCHANGED <<cxt, known, first, placed, tgx, status, untidy>> /\ events' = events
    BY <1>7 DEF host
  <2> HIDE DEF q
  <2> QED BY <1>7, <2>1, <2>2, <2>3, NewEventInv
<1> QED BY <1>4, <1>5, <1>6, <1>7 DEF SetKernelArgEvent, Using, Known, InContext

\* A step that changes nothing.
LEMMA StutterInv == ASSUME ClInv, UNCHANGED vars PROVE ClInv'
<1>1. Crash(status)
  BY DEF vars, Crash
<1> QED BY <1>1, CrashInv DEF ClInv

\* clSetKernelArg of a scalar or a buffer.
LEMMA SetKernelArgInv ==
  ASSUME ClInv, Running, NEW k \in Handle(Kernel), NEW m \in Handle(Mem),
         SetKernelArgScalar(k) \/ SetKernelArgBuffer(k, m)
  PROVE  ClInv'
<1>1. k \in Kernel \cap Live
  BY DEF SetKernelArgScalar, SetKernelArgBuffer, Handle
<1>2. untidy = 0 => cxt = "live" /\ k \in known /\ (m # NULL => m \in known)
  BY <1>1, TidyFacts DEF Handle
<1>3. CASE cxt = "deleted" /\ Crash("stale")
  <2>1. Blamed("stale")
    BY <1>2, <1>3 DEF Blamed
  <2> QED BY <1>3, <2>1, CrashInv
<1>4. CASE (k \notin known \/ (m # NULL /\ m \notin known)) /\ Crash("unknown id")
  <2>1. Blamed("unknown id")
    BY <1>2, <1>4 DEF Blamed
  <2> QED BY <1>4, <2>1, CrashInv
<1>5. CASE Crash("null argument")
  BY <1>5, CrashInv DEF Blamed, TidyEnd
<1>6. CASE UNCHANGED vars
  BY <1>6, StutterInv
<1> QED BY <1>3, <1>4, <1>5, <1>6
        DEF SetKernelArgScalar, SetKernelArgBuffer, Known, InContext, UnlessPassedNull
-----------------------------------------------------------------------------
(***************************************************************************)
(* Every step, and what follows.                                           *)
(***************************************************************************)

\* The clGet...Info functions.
LEMMA QueryInv ==
  ASSUME ClInv, Running, NEW o \in Live, Query(o) PROVE ClInv'
<1>1. NULL \notin Reads(o) /\ (untidy = 0 => Reads(o) \subseteq Live)
  <2>1. CASE o \in Program
    <3>1. Reads(o) = {o, ctx[o]}
      BY <2>1, Kinds DEF Reads
    <3>2. ctx[o] # NULL
      BY <2>1, LiveFacts DEF ClInv, PointerInv, ProgramInv
    <3> QED BY <2>1, <3>1, <3>2, TidyFacts, LiveFacts
  <2>2. CASE o \in Kernel
    <3>1. Reads(o) = {o, program[o]}
      BY <2>2, Kinds DEF Reads
    <3>2. program[o] # NULL
      BY <2>2, LiveFacts DEF ClInv, PointerInv, KernelInv
    <3> QED BY <2>2, <3>1, <3>2, TidyFacts, LiveFacts
  <2>3. CASE o \notin Program /\ o \notin Kernel
    <3>1. Reads(o) = {o}
      BY <2>3 DEF Reads
    <3> QED BY <3>1, LiveFacts
  <2> QED BY <2>1, <2>2, <2>3
<1>2. CASE ~ Reads(o) \subseteq Live /\ Crash("stale")
  <2>1. Blamed("stale")
    BY <1>1, <1>2 DEF Blamed
  <2> QED BY <1>2, <2>1, CrashInv
<1>3. CASE UNCHANGED vars
  BY <1>3, StutterInv
<1> QED BY <1>1, <1>2, <1>3 DEF Query, Using

\* Every call keeps the invariant.
LEMMA ClNextInv == ASSUME ClInv, [Call]_vars PROVE ClInv'
<1>1. CASE UNCHANGED vars
  BY <1>1, StutterInv
<1>2. CASE Call
  <2>0. Running /\ \A S : \A x \in S \cap Live : x \in Live
    BY <1>2 DEF Call
  <2>1. CASE DeviceCalls
    BY <2>0, <2>1, GetDeviceIDsInv, DeleteInv, QueryInv DEF DeviceCalls
  <2>2. CASE ContextCalls
    BY <2>0, <2>2, CreateContextInv, ReleaseContextInv, QueryInv DEF ContextCalls
  <2>3. CASE QueueCalls
    BY <2>0, <2>3, CreateCommandQueueInv, ReleaseCommandQueueInv, QueryInv DEF QueueCalls
  <2>4. CASE MemCalls
    BY <2>0, <2>4, CreateBufferInv, ReleaseMemObjectInv, QueryInv DEF MemCalls
  <2>5. CASE ProgramCalls
    <3>1. 1 .. MaxBinaries \subseteq Nat
      BY HandlesAssumption
    <3> QED BY <2>0, <2>5, <3>1, CreateProgramInv, DeleteInv, QueryInv DEF ProgramCalls
  <2>6. CASE KernelCalls
    <3>1. NULL \in Handle(Mem)
      BY DEF Handle
    <3> QED BY <2>0, <2>6, <3>1, CreateKernelInv, SetKernelArgInv, SetKernelArgEventInv,
               DeleteInv, QueryInv DEF KernelCalls
  <2>7. CASE EventCalls
    BY <2>0, <2>7, WaitForEventsInv, DeleteInv, QueryInv DEF EventCalls
  <2>8. CASE TransferCalls
    BY <2>0, <2>8, EnqueueTransferInv DEF TransferCalls
  <2>9. CASE TaskCalls
    BY <2>0, <2>9, EnqueueTaskInv DEF TaskCalls
  <2>10. CASE MangoCalls
    BY <2>0, <2>10, SetBufferIDsInv, AllocationInv DEF MangoCalls
  <2>11. CASE \E q \in Handle(Queue) : Finish(q)
    BY <2>0, <2>11, FinishInv
  <2> QED BY <1>2, <2>1, <2>2, <2>3, <2>4, <2>5, <2>6, <2>7, <2>8, <2>9, <2>10, <2>11 DEF Call
<1> QED BY <1>1, <1>2

\* The invariant holds of every order of the calls of cl.cpp.
THEOREM ClInvariant == Spec => []ClInv
<1>1. ClInv /\ [Call]_vars => ClInv'
  BY ClNextInv
<1> QED BY <1>1, ClInitInv, PTL DEF Spec

\* The objects are of the kinds the structures of host/OpenCL/include name.
THEOREM ClTypes == Spec => []ClObjTypeOK
<1>1. ClInv => ClObjTypeOK
  BY DEF ClInv, ShapeInv
<1> QED BY <1>1, ClInvariant, PTL

\* What ends a program that keeps the order of creation and release, whatever it
\* calls and how often: the assertions, NULL where it is not expected, a use before
\* the allocation, a released buffer in the graph, a second queue, the event with
\* id 0, and the second deletion of a graph in clReleaseCommandQueue.  Neither
\* pointers to released objects nor null pointers nor unknown ids are among them
\* (host/OpenCL/src).
THEOREM HowTidyProgramsEnd == Spec => []TidyEnds
<1>1. ASSUME ClInv PROVE TidyEnds
  <2> SUFFICES ASSUME untidy = 0
               PROVE  TidyEnd(status) /\ \A o \in Live : Info(o) \subseteq Live
    BY DEF TidyEnds, TidyEnd, Released
  <2>1. TidyEnd(status)
    BY <1>1 DEF ClInv, Blamed
  <2>2. TidyObjects
    BY <1>1 DEF ClInv
  <2>3. ASSUME NEW o \in Live PROVE Info(o) \subseteq Live
    <3>1. CASE o \in Device
      <4>1. Info(o) = {}
        BY <3>1, Kinds DEF Info, DeviceInfo
      <4> QED BY <4>1
    <3>2. CASE o \in Context
      <4>1. Info(o) = devices[o]
        BY <3>2, Kinds DEF Info, ContextInfo
      <4> QED BY <1>1, <3>2, <4>1, TidyFacts
    <3>3. CASE o \in Queue
      <4>1. Info(o) = {ctx[o], device[o]}
        BY <3>3, Kinds DEF Info, QueueInfo
      <4> QED BY <2>2, <3>3, <4>1 DEF TidyObjects, TidyQueue
    <3>4. CASE o \in Mem
      <4>1. Info(o) = {ctx[o]}
        BY <3>4, Kinds DEF Info, MemInfo
      <4> QED BY <2>2, <3>4, <4>1 DEF TidyObjects, TidyMem
    <3>5. CASE o \in Program
      <4>1. Info(o) = {ctx[o]} \cup devices[ctx[o]]
        BY <3>5, Kinds DEF Info, ProgramInfo
      <4> QED BY <1>1, <3>5, <4>1, TidyFacts
    <3>6. CASE o \in Kernel
      <4>1. Info(o) = {program[o], ctx[program[o]]}
        BY <3>6, Kinds DEF Info, KernelInfo
      <4> QED BY <1>1, <3>6, <4>1, TidyFacts
    <3>7. CASE o \in Event
      <4>1. Info(o) = {queue[o], ctx[o]}
        BY <3>7, Kinds DEF Info, EventInfo
      <4> QED BY <2>2, <3>7, <4>1 DEF TidyObjects, TidyEvent
    <3> QED BY <3>1, <3>2, <3>3, <3>4, <3>5, <3>6, <3>7, LiveFacts
  <2> QED BY <2>1, <2>3
<1> QED BY <1>1, ClInvariant, PTL

\* A null pointer that ends the process, and was not passed to the function, is
\* the queue or a device of a context, or leads to a buffer that the host's context
\* does not know any more (host/OpenCL/src/clMem.cpp, clKernel.cpp, clCommandQueue.cpp).
THEOREM NullPointersAreTraced == Spec => []NullPointersTraced
<1>1. ClInv => NullPointersTraced
  BY DEF ClInv, Blamed, NullPointersTraced
<1> QED BY <1>1, ClInvariant, PTL

\* A kernel has an image for its device's type of unit and for no other
\* (host/OpenCL/src/clProgram.cpp).
THEOREM KernelsRunOnTheirDevice == Spec => []RunsOnItsDevice
<1>1. ClInv => RunsOnItsDevice
  BY LiveFacts DEF ClInv, PointerInv, KernelInv, RunsOnItsDevice
<1> QED BY <1>1, ClInvariant, PTL

\* No other call than an allocation places anything.
LEMMA OnlyAllocationPlaces ==
  ASSUME Call, placed' # placed
  PROVE  \E q \in Queue \cap Live : InContext(Allocate(GraphOf(q)))
<1> DEFINE Same == placed' = placed
<1>0. \A reason : Crash(reason) => Same
  BY DEF Crash, host
<1>1. \A o : Delete(o) \/ Query(o) => Same
  BY <1>0 DEF Delete, Query, Using, vars, host
<1>2. \A type, d, u : GetDeviceIDs(type, d, u) => Same
  BY DEF GetDeviceIDs, host
<1>3. /\ \A c, D : CreateContext(c, D) => Same
      /\ \A c : ReleaseContext(c) => Same
  BY <1>0 DEF CreateContext, ReleaseContext
<1>4. /\ \A q, c, d : CreateCommandQueue(q, c, d) => Same
      /\ \A q : ReleaseCommandQueue(q) => Same
      /\ \A q : Finish(q) => Same
  BY <1>0 DEF CreateCommandQueue, ReleaseCommandQueue, Finish, Wait, Using, InContext, host
<1>5. /\ \A p, c, ds, paths : CreateProgramWithBinary(p, c, ds, paths) => Same
      /\ \A p, path : SetBufferIDs(p, path) => Same
  BY <1>0 DEF CreateProgramWithBinary, MakeProgram, SetBufferIDs, UnlessPassedNull, host
<1>6. ASSUME NEW k, NEW p, NEW path, CreateKernel(k, p, path) PROVE Same
  BY <1>0, <1>6 DEF CreateKernel, RegisterKernel, Using, InContext
<1>7. ASSUME NEW m, NEW c, NEW flags, NEW in, NEW out, CreateBuffer(m, c, flags, in, out)
      PROVE  Same
  BY <1>0, <1>7 DEF CreateBuffer, RegisterBuffer, UnlessPassedNull, Using, InContext
<1>8. ASSUME NEW m, ReleaseMemObject(m) PROVE Same
  BY <1>0, <1>8 DEF ReleaseMemObject, InContext
<1>9. \A e, q, o, W : Enqueue(e, q, o, W) => Same
  BY DEF Enqueue, host
<1>10. ASSUME NEW e, NEW q, NEW m, NEW W, EnqueueTransfer(e, q, m, W) PROVE Same
  BY <1>0, <1>9, <1>10 DEF EnqueueTransfer, Transfer, UnlessPassedNull, Wait, InContext
<1>11. ASSUME NEW e, NEW q, NEW k, NEW W, EnqueueTask(e, q, k, W) PROVE Same
  BY <1>0, <1>9, <1>11 DEF EnqueueTask, StartKernel, UnlessPassedNull, Wait, Using, InContext
<1>12. ASSUME NEW e, NEW k, NEW m, \/ SetKernelArgScalar(k)
                                    \/ SetKernelArgBuffer(k, m)
                                    \/ SetKernelArgEvent(e, k, m)
       PROVE  Same
  BY <1>0, <1>12 DEF SetKernelArgScalar, SetKernelArgBuffer, SetKernelArgEvent, Known,
     UnlessPassedNull, Using, InContext, vars, host
<1>13. \A W : WaitForEvents(W) => Same
  BY <1>0 DEF WaitForEvents, Wait, InContext, host
<1> HIDE DEF Same
<1>14. DeviceCalls \/ ContextCalls \/ QueueCalls \/ ProgramCalls => Same
  BY <1>1, <1>2, <1>3, <1>4, <1>5 DEF DeviceCalls, ContextCalls, QueueCalls, ProgramCalls
<1>15. MemCalls => Same
  BY <1>1, <1>7, <1>8 DEF MemCalls
<1>16. KernelCalls \/ EventCalls => Same
  BY <1>1, <1>6, <1>12, <1>13 DEF KernelCalls, EventCalls
<1>17. TransferCalls \/ TaskCalls => Same
  BY <1>10, <1>11 DEF TransferCalls, TaskCalls
<1>18. ~ Same
  BY DEF Same
<1>19. PICK q \in Handle(Queue) : KernelAndBufferAllocation(q)
  BY <1>4, <1>5, <1>14, <1>15, <1>16, <1>17, <1>18 DEF Call, MangoCalls
<1>20. ~ Crash("null argument")
  BY <1>0, <1>18
<1> QED BY <1>19, <1>20 DEF KernelAndBufferAllocation, UnlessPassedNull, Handle

\* What one successful allocation of a process's only queue leaves out: nothing
\* (host/OpenCL/src/clCommandQueue.cpp).
THEOREM AllocationPlacesAll == Spec => AllocatedAllPlaced
<1> DEFINE All == \A q \in Queue \cap Live :
                    {x \in Queue : life[x] # "new"} = {q} /\ placed' # placed
                    => known \subseteq placed'
<1>1. ASSUME ClInv, Call PROVE All
  <2> SUFFICES ASSUME NEW q \in Queue \cap Live, {x \in Queue : life[x] # "new"} = {q},
                      placed' # placed
               PROVE  known \subseteq placed'
    OBVIOUS
  <2>1. \A x \in Queue : Born(x) => x = q
    BY DEF Born
  <2>2. PICK r \in Queue \cap Live : InContext(Allocate(GraphOf(r)))
    BY <1>1, OnlyAllocationPlaces
  <2> DEFINE g == GraphOf(q)
  <2>3. r = q
    BY <2>1, <2>2, LiveFacts
  <2>4. /\ AllocationFault(g) = "none"
        /\ placed' = placed \cup ToSet(g.kernels) \cup g.buffers
    BY <2>2, <2>3 DEF Allocate, InContext, Crash, host
  <2>5. known \cap Kernel \subseteq ToSet(g.kernels)
    BY <2>4 DEF AllocationFault
  <2>6. known \cap Mem \subseteq g.buffers
    BY <1>1, <2>1 DEF ClInv, GraphInv
  <2>7. known \subseteq Kernel \cup Mem
    BY <1>1 DEF ClInv, ShapeInv, ClObjTypeOK
  <2> QED BY <2>4, <2>5, <2>6, <2>7
<1>2. ClInv /\ [Call]_vars => [All]_vars
  BY <1>1
<1> QED BY <1>2, ClInvariant, PTL DEF Spec, AllocatedAllPlaced
=============================================================================
