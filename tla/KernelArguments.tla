---------------------------- MODULE KernelArguments ----------------------------
(***************************************************************************)
(* How the arguments of a kernel get to it: the application makes them     *)
(* with clSetKernelArg or mango_arg, mango_set_args looks up the addresses *)
(* of buffers and events in the kernel's TLB object, start_kernel prints   *)
(* everything into a string, and the entry code that is generated for the  *)
(* kernel reads the parameters from its words.                             *)
(*                                                                         *)
(* The TLB objects are those that MemoryManager fills; the application,    *)
(* which has one thread, calls nothing while resource allocation runs.     *)
(* Numbers are those of the code divided by 2^16 where they are addresses; *)
(* Word is the number of values of a 32-bit word in the same measure.      *)
(***************************************************************************)
EXTENDS MemoryManager, Sequences, FiniteSetsExt

CONSTANTS
  Scalars,      \* the values the application passes as scalars
  Word,         \* what fits into mango_size_t is below this
  LongMax,      \* per architecture: the largest long, at which strtol stops
  OwnEvents,    \* of a kernel: its termination event and its task events
  BufferEvent,  \* the event of a buffer
  MaxArgs       \* bound: the arguments made, of all kernels together

\* The units whose entry code is generated (dev/bin/mango_gen_kernel_entry.py)
\* and whose runtime parses its words; only their kernels are given arguments.
Reader == {"GN", "PEAK"}

ASSUME ArgumentAssumption ==
  /\ Scalars \subseteq Nat /\ Word \in Nat \ {0} /\ MaxArgs \in Nat
  /\ LongMax \in [Reader -> Nat]
  /\ OwnEvents \in [Kernel -> Seq(Event)]
  /\ \A k \in Kernel : Len(OwnEvents[k]) > 0 /\
       \A i \in DOMAIN OwnEvents[k] : k \in EventKernels[OwnEvents[k][i]]
  /\ BufferEvent \in [Buffer -> Event]

VARIABLES
  args,    \* the arguments made for a kernel, in this order
  passed,  \* the values of the KernelArguments object of a kernel
  argv,    \* the words of the argument string a kernel was started with
  status   \* whether the process runs, or why it has ended

argVars == <<args, passed, argv, status>>

Running == status = "running"
Begun == left.images # Kernel
-----------------------------------------------------------------------------
(***************************************************************************)
(* Making arguments.  "meant" is the value of a scalar in the application; *)
(* one of a size other than 2, 4 or 8 bytes is read as if it had 4.        *)
(* Arguments that are made before the allocation hold an id only, just as  *)
(* those made after it, so that it is enough to make them after it.        *)
(***************************************************************************)
ScalarArg(meant, v) == [type |-> "SCALAR", of |-> "", value |-> v, meant |-> meant]
BufferArg(b) == [type |-> "BUFFER", of |-> b, value |-> 0, meant |-> 0]
EventArg(e)  == [type |-> "EVENT", of |-> e, value |-> 0, meant |-> 0]

MakeArg(k, a) ==
  /\ args' = [args EXCEPT ![k] = Append(@, a)]
  /\ UNCHANGED <<passed, argv, status>>

\* Mutant of Truncated: a long keeps all its bits.
TruncatedNever(v) == v

\* mango_arg makes an uint64_t an uint32_t.
Truncated(v) == v % Word

\* clSetKernelArg of a scalar; its index is ignored.
SetScalar(k, v) == MakeArg(k, ScalarArg(v, Truncated(v)))

SetBuffer(k, b) == MakeArg(k, BufferArg(b))

\* clSetKernelArg of an event: the index is that of the argument whose buffer
\* has the event.  The id of a scalar has never been written.
SetEvent(k, i) ==
  LET a == args[k][i] IN
  IF a.type = "BUFFER" THEN MakeArg(k, EventArg(BufferEvent[a.of]))
  ELSE \/ \E b \in Buffer : MakeArg(k, EventArg(BufferEvent[b]))
       \/ status' = "unknown buffer" /\ UNCHANGED <<args, passed, argv>>
-----------------------------------------------------------------------------
(***************************************************************************)
(* mango_set_args and mango_set_args_from_vector.                          *)
(***************************************************************************)
\* Mutant of OwnArgs: the events of one kernel for all.
OwnArgsOfOne(k) ==
  LET one == CHOOSE j \in Kernel : TRUE IN
  [i \in DOMAIN OwnEvents[one] |-> EventArg(OwnEvents[one][i])]

\* KernelArguments::setup: the events of the kernel itself come first.
OwnArgs(k) == [i \in DOMAIN OwnEvents[k] |-> EventArg(OwnEvents[k][i])]

AllArgs(k) == OwnArgs(k) \o args[k]

\* Arg::set_value
Value(k, a) ==
  CASE a.type = "SCALAR" -> a.value
    [] a.type = "BUFFER" -> vbuffer[k][a.of]
    [] a.type = "EVENT"  -> vevent[k][a.of]

\* A missing address makes std::map::at throw in a function that is noexcept.
SetArgs(k) ==
  LET as == AllArgs(k) IN
  IF \E i \in DOMAIN as : Value(k, as[i]) = Unset
  THEN status' = "no address" /\ UNCHANGED <<args, passed, argv>>
  ELSE /\ passed' = [passed EXCEPT ![k] = [i \in DOMAIN as |-> Value(k, as[i])]]
       /\ UNCHANGED <<args, argv, status>>
-----------------------------------------------------------------------------
(***************************************************************************)
(* The string.  A word is a number and the base in which it is printed.    *)
(***************************************************************************)
\* The name of the image or an x; in the emulation the size of the memory, too.
FirstWords(a) ==
  LET name == [base |-> 10, number |-> 0] IN
  IF a = "GN" THEN <<name, name>> ELSE <<name>>

\* Mutant of PrintBase: hexadecimal digits for addresses only.
PrintBaseOfType(as, i) == IF as[i].type = "SCALAR" THEN 10 ELSE 16

\* std::hex stays in force once it has been given to the stream.
PrintBase(as, i) == IF \E j \in 1 .. i : as[j].type # "SCALAR" THEN 16 ELSE 10

\* KernelArguments::get_arguments
Words(k) ==
  [i \in DOMAIN passed[k] |-> [base |-> PrintBase(AllArgs(k), i), number |-> passed[k][i]]]

\* Context::start_kernel
StartKernel(k) ==
  /\ passed[k] # <<>>
  /\ argv' = [argv EXCEPT ![k] = FirstWords(arch[k]) \o Words(k)]
  /\ UNCHANGED <<args, passed, status>>
-----------------------------------------------------------------------------
(***************************************************************************)
(* The kernel's side.                                                      *)
(***************************************************************************)
\* The digits of n to base 10, read to base 16.
DecimalAsHex[n \in Nat] ==
  IF n < 10 THEN n ELSE 16 * DecimalAsHex[n \div 10] + (n % 10)

\* strtol(word, NULL, 16)
Strtol(a, word) ==
  LET n == IF word.base = 16 THEN word.number ELSE DecimalAsHex[word.number] IN
  IF n > LongMax[a] THEN LongMax[a] ELSE n

\* The index in argv of the first event: 2 in mango_gn_init, 1 in mango_peak_init.
FirstEvent(a) == IF a = "GN" THEN 2 ELSE 1

\* The index in argv of the first parameter: in the generated code 6 for GN and
\* 5 for PEAK, as kernels have four events of their own.
FirstParameter(a, k) == (IF a = "GN" THEN 2 ELSE 1) + Len(OwnEvents[k])

\* What the runtime reads for the i-th event of the kernel and the generated
\* code for its i-th parameter; argv[0] is the first word.
OwnEventRead(k, i) == Strtol(arch[k], argv[k][FirstEvent(arch[k]) + i])
Parameter(k, i) == Strtol(arch[k], argv[k][FirstParameter(arch[k], k) + i])
-----------------------------------------------------------------------------
ArgInit ==
  /\ Init
  /\ args = [k \in Kernel |-> <<>>]
  /\ passed = [k \in Kernel |-> <<>>]
  /\ argv = [k \in Kernel |-> <<>>]
  /\ status = "running"

ArgCount == MapThenSumSet(LAMBDA k : Len(args[k]), Kernel)

ArgStep(k) ==
  \/ /\ Allocated /\ ArgCount < MaxArgs
     /\ \/ \E v \in Scalars : SetScalar(k, v)
        \/ \E b \in Buffer : SetBuffer(k, b)
        \/ \E i \in DOMAIN args[k] : SetEvent(k, i)
  \/ ~ Begun /\ SetArgs(k)
  \/ Allocated /\ SetArgs(k)
  \/ StartKernel(k)

\* An exception that nobody catches has ended the process.
Ended == ~ Running /\ UNCHANGED <<vars, argVars>>

ArgNext ==
  \/ /\ Running
     /\ \/ Next /\ UNCHANGED argVars
        \/ \E k \in Kernel : arch[k] \in Reader /\ ArgStep(k) /\ UNCHANGED vars
  \/ Ended

ArgSpec == ArgInit /\ [][ArgNext]_<<vars, argVars>>
-----------------------------------------------------------------------------
(***************************************************************************)
(* Properties.                                                             *)
(***************************************************************************)
\* Values of arguments fit into mango_size_t (host/include/kernel_arguments.h),
\* and the string has a word for each of them.
ArgTypeOK ==
  /\ \A k \in Kernel :
       /\ \A i \in DOMAIN args[k] :
            /\ args[k][i].type \in {"SCALAR", "BUFFER", "EVENT"}
            /\ args[k][i].value \in 0 .. Word - 1
       /\ passed[k] \in Seq(Nat) /\ Len(passed[k]) <= Len(AllArgs(k))
       /\ argv[k] # <<>> => Len(argv[k]) <= Len(FirstWords(arch[k])) + Len(passed[k])
  /\ status \in {"running", "no address", "unknown buffer"}

\* Whether n is what the kernel k must get for the argument a: an address that
\* its unit translates to the buffer or to the register of the event, or the
\* value that the application has, as far as a word and a long can hold it.
Arrives(k, a, n) ==
  CASE a.type = "BUFFER" ->
         IF arch[k] = "GN" THEN n = BufferPhys[a.of]
         ELSE \E r \in tlb[k] : r.of = a.of /\ r.first = n
    [] a.type = "EVENT" ->
         IF arch[k] = "GN" THEN n = EventPhys[a.of]
         ELSE \E r \in tlb[k] : r.of = "events" /\ n - r.first = EventPhys[a.of]
    [] a.type = "SCALAR" ->
         a.meant < Word /\ a.meant <= LongMax[arch[k]] => n = a.meant

\* A kernel on GN or PEAK gets its own events, and its parameters in the order
\* in which they were made, through the TLB object, the string and its words;
\* only a scalar of more than 32 bits, or on PEAK of more than 31, is another
\* number when it arrives (host/src/kernel_arguments.cpp, mango.cpp:330).
ArgumentsArrive ==
  \A k \in Kernel : argv[k] # <<>> /\ arch[k] \in Reader =>
    LET own == Len(OwnEvents[k]) IN
    /\ \A i \in 1 .. own : Arrives(k, EventArg(OwnEvents[k][i]), OwnEventRead(k, i))
    /\ \A i \in 1 .. Len(argv[k]) - FirstParameter(arch[k], k) :
         Arrives(k, args[k][i], Parameter(k, i))

\* Setting arguments ends the process only before the buffers and events have
\* been given their addresses, or when the kernel was not registered with the
\* buffer or event (host/src/kernel_arguments.cpp:70).
AddressesKnown ==
  LET stranger(k, a) ==
        \/ a.type = "BUFFER" /\ k \notin KernelsIn[a.of] \cup KernelsOut[a.of]
        \/ a.type = "EVENT" /\ k \notin EventKernels[a.of]
  IN status = "no address" =>
       ~ Allocated \/ \E k \in Kernel : \E i \in DOMAIN args[k] : stranger(k, args[k][i])
===============================================================================
