------------------------- MODULE KernelArgumentsProofs -------------------------
(***************************************************************************)
(* Arguments get to the kernels of GN and PEAK, for any kernels, buffers   *)
(* and events, any layout of the regions and any scalars.                  *)
(*                                                                         *)
(* The values of a kernel's arguments exist only when the memory manager   *)
(* has ended, and are those of the addresses it gave; the words of the     *)
(* string are these values, all of them in hexadecimal digits, because an  *)
(* event of the kernel itself is always printed first.                     *)
(***************************************************************************)
EXTENDS KernelArguments, MemoryManagerProofs, SequenceTheorems

\* The arguments a program can make.
Argument ==
  {ScalarArg(v, Truncated(v)) : v \in Nat} \cup
  {BufferArg(b) : b \in Buffer} \cup {EventArg(e) : e \in Event}

PrintedWord == [base : {10, 16}, number : Nat]

\* Addresses in the TLB objects, where they have been set, are the ones meant;
\* those of events are set after the images of all kernels.
ExactInv ==
  \A k \in Kernel :
    /\ arch[k] = "GN" => \A b \in Buffer : vbuffer[k][b] \in {Unset, BufferPhys[b]}
    /\ \A e \in Event : vevent[k][e] \in {Unset, EventAddress(k, e)}
    /\ left.images # {} => \A e \in Event : vevent[k][e] = Unset

\* The values of a KernelArguments object are the addresses of the first
\* arguments of its kernel, of all events of its own at least.
PassedInv ==
  /\ passed \in [Kernel -> Seq(Nat)]
  /\ \A k \in Kernel : passed[k] # <<>> =>
       /\ Allocated
       /\ Len(OwnEvents[k]) <= Len(passed[k]) /\ Len(passed[k]) <= Len(AllArgs(k))
       /\ \A i \in 1 .. Len(passed[k]) : passed[k][i] = Value(k, AllArgs(k)[i])

\* So are the words of an argument string, behind the first ones.
ArgvInv ==
  /\ argv \in [Kernel -> Seq(PrintedWord)]
  /\ \A k \in Kernel : argv[k] # <<>> =>
       /\ passed[k] # <<>>
       /\ FirstParameter(arch[k], k) <= Len(argv[k])
       /\ Len(argv[k]) <= FirstEvent(arch[k]) + Len(passed[k])
       /\ \A i \in 1 .. Len(argv[k]) - FirstEvent(arch[k]) :
            argv[k][FirstEvent(arch[k]) + i] =
              [base |-> 16, number |-> Value(k, AllArgs(k)[i])]

\* The inductive invariant.
ArgInv ==
  /\ IInv /\ ExactInv /\ PassedInv /\ ArgvInv /\ AddressesKnown
  /\ args \in [Kernel -> Seq(Argument)]
  /\ status \in {"running", "no address", "unknown buffer"}

\* Conversion to an unsigned type.
LEMMA SmallModulo ==
  ASSUME NEW v \in Nat, NEW w \in Nat, w > 0, v < w
  PROVE  v % w = v
OBVIOUS

\* The same, whatever the value.
LEMMA ModuloBounded ==
  ASSUME NEW v \in Nat, NEW w \in Nat, w > 0
  PROVE  v % w \in 0 .. w - 1
OBVIOUS

\* A function on the first numbers is a sequence.
LEMMA FunctionIsSeq ==
  ASSUME NEW S, NEW m \in Nat, NEW f \in [1 .. m -> S]
  PROVE  f \in Seq(S) /\ Len(f) = m
OBVIOUS

USE ArgumentAssumption DEF Reader, Mapped, Unset
-----------------------------------------------------------------------------
\* The kinds of arguments; a value is not cut if it fits into a word.
LEMMA ArgumentFacts ==
  ASSUME NEW a \in Argument
  PROVE  /\ a.type \in {"SCALAR", "BUFFER", "EVENT"}
         /\ a.value \in 0 .. Word - 1
         /\ a.type = "SCALAR" => (a.meant < Word => a.value = a.meant)
         /\ a.type = "BUFFER" => a.of \in Buffer /\ a = BufferArg(a.of)
         /\ a.type = "EVENT" => a.of \in Event /\ a = EventArg(a.of)
<1>1. ASSUME NEW v \in Nat, a = ScalarArg(v, Truncated(v))
      PROVE  a.type = "SCALAR" /\ a.value \in 0 .. Word - 1 /\ (a.meant < Word => a.value = a.meant)
  <2>1. v % Word \in 0 .. Word - 1 /\ (v < Word => v % Word = v)
    BY SmallModulo, ModuloBounded
  <2> QED BY <1>1, <2>1 DEF ScalarArg, Truncated
<1>2. ASSUME NEW b \in Buffer, a = BufferArg(b)
      PROVE  a.type = "BUFFER" /\ a.value = 0 /\ a.of \in Buffer /\ a = BufferArg(a.of)
  BY <1>2 DEF BufferArg
<1>3. ASSUME NEW e \in Event, a = EventArg(e)
      PROVE  a.type = "EVENT" /\ a.value = 0 /\ a.of \in Event /\ a = EventArg(a.of)
  BY <1>3 DEF EventArg
<1>4. \/ \E v \in Nat : a = ScalarArg(v, Truncated(v))
      \/ \E b \in Buffer : a = BufferArg(b)
      \/ \E e \in Event : a = EventArg(e)
  BY DEF Argument
<1> QED BY <1>1, <1>2, <1>3, <1>4

\* A kernel's own events and then the arguments that were made.
LEMMA AllArgsFacts ==
  ASSUME NEW k \in Kernel, NEW s \in Seq(Argument)
  PROVE  LET own == Len(OwnEvents[k])
             all == OwnArgs(k) \o s IN
         /\ own \in Nat \ {0} /\ Len(s) \in Nat
         /\ all \in Seq(Argument) /\ Len(all) = own + Len(s)
         /\ DOMAIN all = 1 .. own + Len(s)
         /\ \A i \in 1 .. own : /\ OwnEvents[k][i] \in Event
                                /\ k \in EventKernels[OwnEvents[k][i]]
                                /\ all[i] = EventArg(OwnEvents[k][i])
         /\ \A i \in 1 .. Len(s) : all[own + i] = s[i]
<1> DEFINE own == Len(OwnEvents[k])
           all == OwnArgs(k) \o s
<1>1. /\ OwnEvents[k] \in Seq(Event) /\ own \in Nat \ {0}
      /\ DOMAIN OwnEvents[k] = 1 .. own
      /\ \A i \in 1 .. own : OwnEvents[k][i] \in Event
  OBVIOUS
<1>2. OwnArgs(k) \in Seq(Argument) /\ Len(OwnArgs(k)) = own
  <2>1. \A i \in 1 .. own : EventArg(OwnEvents[k][i]) \in Argument
    BY <1>1 DEF Argument
  <2> QED BY <1>1, <2>1 DEF OwnArgs
<1>3. /\ Len(s) \in Nat
      /\ all \in Seq(Argument) /\ Len(all) = own + Len(s)
      /\ \A i \in 1 .. own + Len(s) :
           all[i] = IF i <= own THEN OwnArgs(k)[i] ELSE s[i - own]
  <2> DEFINE o == OwnArgs(k)
  <2>1. o \in Seq(Argument) /\ Len(o) = own
    BY <1>2
  <2> HIDE DEF o
  <2>2. /\ o \o s \in Seq(Argument) /\ Len(o \o s) = Len(o) + Len(s)
        /\ \A i \in 1 .. Len(o) + Len(s) :
             (o \o s)[i] = IF i <= Len(o) THEN o[i] ELSE s[i - Len(o)]
    BY <2>1, ConcatProperties
  <2>3. /\ o \o s \in Seq(Argument) /\ Len(o \o s) = own + Len(s)
        /\ \A i \in 1 .. own + Len(s) :
             (o \o s)[i] = IF i <= own THEN o[i] ELSE s[i - own]
    BY <2>1, <2>2
  <2> QED BY <2>3 DEF o
<1>4. DOMAIN all = 1 .. own + Len(s)
  BY <1>3
<1>5. ASSUME NEW i \in 1 .. own
      PROVE  OwnEvents[k][i] \in Event /\ k \in EventKernels[OwnEvents[k][i]]
             /\ all[i] = EventArg(OwnEvents[k][i])
  BY <1>1, <1>3 DEF OwnArgs
<1>6. ASSUME NEW i \in 1 .. Len(s)
      PROVE  all[own + i] = s[i]
  BY <1>1, <1>3
<1> QED BY <1>1, <1>3, <1>4, <1>5, <1>6

\* Registers have addresses.
LEMMA AddressNatural ==
  ASSUME TypeOK, NEW k \in Kernel, NEW e \in Event
  PROVE  EventAddress(k, e) \in Nat
<1>1. EventPhys[e] \in Nat
  BY GraphAssumption, LayoutAssumption
<1>2. CASE arch[k] = "GN"
  BY <1>1, <1>2 DEF EventAddress
<1>3. CASE arch[k] \in Mapped
  <2>1. SynchBase[arch[k]] \in Nat
    BY <1>3, LayoutAssumption
  <2> QED BY <1>1, <1>3, <2>1 DEF EventAddress
<1> QED BY <1>2, <1>3 DEF TypeOK

\* The arguments made for a kernel are ones a program can make.
LEMMA ArgsAreArguments ==
  ASSUME ArgInv, NEW k \in Kernel, NEW i \in DOMAIN args[k]
  PROVE  args[k][i] \in Argument
<1>1. args[k] \in Seq(Argument)
  BY DEF ArgInv
<1> QED BY <1>1

\* Lengths are natural numbers.
LEMMA LengthFacts ==
  ASSUME PassedInv, ArgvInv, NEW k \in Kernel
  PROVE  /\ Len(passed[k]) \in Nat /\ passed[k] \in [1 .. Len(passed[k]) -> Nat]
         /\ Len(argv[k]) \in Nat /\ argv[k] \in [1 .. Len(argv[k]) -> PrintedWord]
         /\ FirstEvent(arch[k]) \in Nat
<1>1. passed[k] \in Seq(Nat) /\ argv[k] \in Seq(PrintedWord)
  BY DEF PassedInv, ArgvInv
<1>2. FirstEvent(arch[k]) \in Nat
  BY DEF FirstEvent
<1> QED BY <1>1, <1>2, LenProperties

\* The words before the first event.
LEMMA FirstWordsFacts ==
  ASSUME NEW a
  PROVE  FirstWords(a) \in Seq(PrintedWord) /\ Len(FirstWords(a)) = FirstEvent(a)
<1> DEFINE name == [base |-> 10, number |-> 0]
<1>1. name \in PrintedWord
  BY DEF PrintedWord
<1> HIDE DEF name
<1>2. <<name, name>> \in Seq(PrintedWord) /\ Len(<<name, name>>) = 2
      /\ <<name>> \in Seq(PrintedWord) /\ Len(<<name>>) = 1
  BY <1>1
<1> QED BY <1>2 DEF FirstWords, FirstEvent, name

\* What an argument is turned into.
LEMMA ValueFacts ==
  ASSUME TypeOK, NEW k \in Kernel, NEW a \in Argument
  PROVE  /\ a.type = "SCALAR" => Value(k, a) = a.value
         /\ a.type = "BUFFER" => Value(k, a) = vbuffer[k][a.of]
         /\ a.type = "EVENT" => Value(k, a) = vevent[k][a.of]
         /\ Value(k, a) \in Nat \cup {Unset}
<1>1. /\ a.type = "SCALAR" => Value(k, a) = a.value
      /\ a.type = "BUFFER" => Value(k, a) = vbuffer[k][a.of]
      /\ a.type = "EVENT" => Value(k, a) = vevent[k][a.of]
  BY DEF Value
<1>2. a.value \in Nat
  BY ArgumentFacts
<1>3. /\ \A b \in Buffer : vbuffer[k][b] \in Nat \cup {Unset}
      /\ \A e \in Event : vevent[k][e] \in Nat \cup {Unset}
  BY DEF TypeOK
<1> QED BY <1>1, <1>2, <1>3, ArgumentFacts

\* Nothing is left to do when the resource allocation has ended.
LEMMA AllocatedRests ==
  ASSUME Allocated, Next
  PROVE  UNCHANGED vars
BY DEF Allocated, Next, KernelStep, MapImage, MapBuffer, MapEvent, MapWindow, Done

\* The addresses stay exact.
LEMMA ExactStep ==
  ASSUME IInv, ExactInv, Next
  PROVE  ExactInv'
<1>1. TypeOK
  BY DEF IInv
<1>2. ASSUME NEW k \in Kernel, MapImage(k) PROVE ExactInv'
  <2>1. /\ arch' = arch /\ vbuffer' = vbuffer /\ vevent' = vevent
        /\ left'.images \subseteq left.images
    BY <1>1, <1>2 DEF MapImage, TypeOK
  <2> QED BY <2>1 DEF ExactInv, EventAddress
<1>3. ASSUME NEW k \in Kernel, NEW b \in Buffer, NEW side \in {"in", "out"},
             MapBuffer(k, b, side)
      PROVE  ExactInv'
  <2>1. arch' = arch /\ vevent' = vevent /\ left'.images = left.images
    BY <1>1, <1>3 DEF MapBuffer, TypeOK
  <2>2. \A j \in Kernel : arch[j] = "GN" =>
          \A c \in Buffer : vbuffer'[j][c] \in {Unset, BufferPhys[c]}
    <3> SUFFICES ASSUME NEW j \in Kernel, arch[j] = "GN", NEW c \in Buffer
                 PROVE  vbuffer'[j][c] \in {Unset, BufferPhys[c]}
      OBVIOUS
    <3>1. Simulated
      <4>1. ASSUME arch \in [Kernel -> Mapped] PROVE FALSE
        BY <4>1
      <4> QED BY <1>1, <4>1, AllOrNone
    <3>2. vbuffer' = [vbuffer EXCEPT ![k][b] = BufferPhys[b]]
      BY <1>3, <3>1 DEF MapBuffer, SetBuffTlbGN
    <3>3. vbuffer \in [Kernel -> [Buffer -> Nat \cup {Unset}]]
      BY <1>1 DEF TypeOK
    <3>4. vbuffer[j][c] \in {Unset, BufferPhys[c]}
      BY DEF ExactInv
    <3> QED BY <3>2, <3>3, <3>4
  <2> QED BY <2>1, <2>2 DEF ExactInv, EventAddress
<1>4. ASSUME NEW k \in Kernel, NEW e \in Event, MapEvent(k, e) PROVE ExactInv'
  <2>1. /\ arch' = arch /\ vbuffer' = vbuffer /\ left'.images = {}
        /\ vevent' = [vevent EXCEPT ![k][e] = EventAddress(k, e)]
    BY <1>1, <1>4 DEF MapEvent, TypeOK
  <2>2. vevent \in [Kernel -> [Event -> Nat \cup {Unset}]]
    BY <1>1 DEF TypeOK
  <2>3. \A j \in Kernel : \A f \in Event :
          vevent'[j][f] \in {Unset, EventAddress(j, f)}
    BY <2>1, <2>2 DEF ExactInv
  <2> QED BY <2>1, <2>3 DEF ExactInv, EventAddress
<1>5. ASSUME NEW k \in Kernel, MapWindow(k) PROVE ExactInv'
  <2>1. arch' = arch /\ vbuffer' = vbuffer /\ vevent' = vevent /\ left'.images = left.images
    BY <1>1, <1>5 DEF MapWindow, TypeOK
  <2> QED BY <2>1 DEF ExactInv, EventAddress
<1>6. CASE Done
  BY <1>6 DEF Done, vars, ExactInv, EventAddress
<1> QED BY <1>2, <1>3, <1>4, <1>5, <1>6 DEF Next, KernelStep
-----------------------------------------------------------------------------
\* No kernel has arguments, and no address is known.
LEMMA ArgInitInv == ArgInit => ArgInv
<1> SUFFICES ASSUME ArgInit PROVE ArgInv
  OBVIOUS
<1>1. IInv
  BY InitInvariant DEF ArgInit
<1>2. ExactInv
  BY DEF ArgInit, Init, ExactInv
<1>3. PassedInv /\ ArgvInv
  BY DEF ArgInit, PassedInv, ArgvInv
<1>4. AddressesKnown /\ status \in {"running", "no address", "unknown buffer"}
  BY DEF ArgInit, AddressesKnown
<1>5. args \in [Kernel -> Seq(Argument)]
  BY DEF ArgInit
<1> QED BY <1>1, <1>2, <1>3, <1>4, <1>5 DEF ArgInv

\* A step of the memory manager: arguments have values only after the last.
LEMMA ManagerStep ==
  ASSUME ArgInv, Running, Next, UNCHANGED argVars
  PROVE  ArgInv'
<1>1. IInv' /\ ExactInv'
  BY NextInvariant, ExactStep DEF ArgInv
<1>2. args' = args /\ passed' = passed /\ argv' = argv /\ status' = status
  BY DEF argVars
<1>3. AddressesKnown'
  BY <1>2 DEF AddressesKnown, Running
<1>4. PassedInv' /\ ArgvInv'
  <2>1. CASE Allocated
    <3>1. UNCHANGED vars
      BY <2>1, AllocatedRests
    <3>2. \A k, a : Value(k, a)' = Value(k, a)
      BY <3>1 DEF vars, Value
    <3>3. \A k : AllArgs(k)' = AllArgs(k)
      BY <1>2 DEF AllArgs
    <3>4. arch' = arch /\ Allocated'
      BY <2>1, <3>1 DEF vars, Allocated
    <3>5. PassedInv'
      BY <1>2, <3>2, <3>3, <3>4 DEF ArgInv, PassedInv
    <3> QED BY <1>2, <3>2, <3>3, <3>4, <3>5 DEF ArgInv, ArgvInv
  <2>2. CASE ~ Allocated
    BY <1>2, <2>2 DEF ArgInv, PassedInv, ArgvInv
  <2> QED BY <2>1, <2>2
<1> QED BY <1>1, <1>2, <1>3, <1>4 DEF ArgInv

\* clSetKernelArg and mango_arg: arguments behind those that have values.
LEMMA MakeArgInv ==
  ASSUME ArgInv, Running, UNCHANGED vars, NEW k \in Kernel, NEW a \in Argument, MakeArg(k, a)
  PROVE  ArgInv'
<1>1. IInv' /\ ExactInv'
  BY StutterInvariant DEF ArgInv, vars, ExactInv, EventAddress
<1>2. /\ args' = [args EXCEPT ![k] = Append(args[k], a)]
      /\ passed' = passed /\ argv' = argv /\ status' = status
  BY DEF MakeArg
<1>3. args \in [Kernel -> Seq(Argument)]
  BY DEF ArgInv
<1>4. args' \in [Kernel -> Seq(Argument)]
  BY <1>2, <1>3, AppendProperties
<1>5. AddressesKnown'
  BY <1>2 DEF AddressesKnown, Running
<1>6. arch' = arch /\ (Allocated => Allocated') /\ \A j, c : Value(j, c)' = Value(j, c)
  BY DEF vars, Allocated, Value
<1>7. ASSUME NEW j \in Kernel
      PROVE  /\ Len(AllArgs(j)) \in Nat /\ Len(AllArgs(j)') \in Nat
             /\ Len(AllArgs(j)) <= Len(AllArgs(j)')
             /\ \A i \in 1 .. Len(AllArgs(j)) : AllArgs(j)'[i] = AllArgs(j)[i]
  <2> DEFINE own == Len(OwnEvents[j])
  <2>1. /\ Len(args[j]) \in Nat /\ Len(args'[j]) \in Nat
        /\ Len(args[j]) <= Len(args'[j])
        /\ \A i \in 1 .. Len(args[j]) : args'[j][i] = args[j][i]
    BY <1>2, <1>3, AppendProperties
  <2>2. args[j] \in Seq(Argument) /\ args'[j] \in Seq(Argument)
    BY <1>3, <1>4
  <2>3. /\ own \in Nat /\ Len(AllArgs(j)) = own + Len(args[j])
        /\ \A i \in 1 .. own : AllArgs(j)[i] = EventArg(OwnEvents[j][i])
        /\ \A i \in 1 .. Len(args[j]) : AllArgs(j)[own + i] = args[j][i]
    BY <2>2, AllArgsFacts DEF AllArgs
  <2>4. /\ Len(AllArgs(j)') = own + Len(args'[j])
        /\ \A i \in 1 .. own : AllArgs(j)'[i] = EventArg(OwnEvents[j][i])
        /\ \A i \in 1 .. Len(args'[j]) : AllArgs(j)'[own + i] = args'[j][i]
    <3> DEFINE t == args'[j]
    <3>1. t \in Seq(Argument) /\ AllArgs(j)' = OwnArgs(j) \o t
      BY <2>2 DEF AllArgs
    <3> HIDE DEF t
    <3>2. /\ Len(OwnArgs(j) \o t) = own + Len(t)
          /\ \A i \in 1 .. own : (OwnArgs(j) \o t)[i] = EventArg(OwnEvents[j][i])
          /\ \A i \in 1 .. Len(t) : (OwnArgs(j) \o t)[own + i] = t[i]
      BY <3>1, AllArgsFacts
    <3> QED BY <3>1, <3>2 DEF t
  <2>5. ASSUME NEW i \in 1 .. Len(AllArgs(j)) PROVE AllArgs(j)'[i] = AllArgs(j)[i]
    <3>1. CASE i <= own
      BY <2>3, <2>4, <3>1
    <3>2. CASE i > own
      <4>1. PICK n \in 1 .. Len(args[j]) : i = own + n
        <5>1. i - own \in 1 .. Len(args[j]) /\ i = own + (i - own)
          BY <2>1, <2>3, <3>2
        <5> QED BY <5>1
      <4>2. n \in 1 .. Len(args'[j])
        BY <2>1
      <4>3. AllArgs(j)[own + n] = args[j][n] /\ AllArgs(j)'[own + n] = args'[j][n]
            /\ args'[j][n] = args[j][n]
        BY <2>1, <2>3, <2>4, <4>2
      <4> QED BY <4>1, <4>3
    <3> QED BY <2>3, <3>1, <3>2
  <2> QED BY <2>1, <2>3, <2>4, <2>5
<1>8. PassedInv'
  <2>1. passed' \in [Kernel -> Seq(Nat)]
    BY <1>2 DEF ArgInv, PassedInv
  <2> SUFFICES ASSUME NEW j \in Kernel, passed[j] # <<>>
               PROVE  /\ Allocated'
                      /\ Len(OwnEvents[j]) <= Len(passed[j])
                      /\ Len(passed[j]) <= Len(AllArgs(j)')
                      /\ \A i \in 1 .. Len(passed[j]) :
                           passed[j][i] = Value(j, AllArgs(j)'[i])
    BY <1>2, <1>6, <2>1 DEF PassedInv
  <2>2. /\ Allocated /\ Len(OwnEvents[j]) <= Len(passed[j])
        /\ Len(passed[j]) <= Len(AllArgs(j))
        /\ \A i \in 1 .. Len(passed[j]) : passed[j][i] = Value(j, AllArgs(j)[i])
    BY DEF ArgInv, PassedInv
  <2>3. Len(passed[j]) \in Nat
    BY LengthFacts DEF ArgInv
  <2>4. Len(passed[j]) <= Len(AllArgs(j)')
    BY <1>7, <2>2, <2>3
  <2>5. ASSUME NEW i \in 1 .. Len(passed[j])
        PROVE  passed[j][i] = Value(j, AllArgs(j)'[i])
    <3>1. i \in 1 .. Len(AllArgs(j))
      BY <1>7, <2>2, <2>3
    <3> QED BY <1>7, <2>2, <3>1
  <2> QED BY <1>6, <2>2, <2>4, <2>5
<1>9. ArgvInv'
  <2>1. argv' \in [Kernel -> Seq(PrintedWord)]
    BY <1>2 DEF ArgInv, ArgvInv
  <2> SUFFICES ASSUME NEW j \in Kernel, argv[j] # <<>>
               PROVE  /\ passed[j] # <<>>
                      /\ FirstParameter(arch[j], j) <= Len(argv[j])
                      /\ Len(argv[j]) <= FirstEvent(arch[j]) + Len(passed[j])
                      /\ \A i \in 1 .. Len(argv[j]) - FirstEvent(arch[j]) :
                           argv[j][FirstEvent(arch[j]) + i] =
                             [base |-> 16, number |-> Value(j, AllArgs(j)'[i])]
    BY <1>2, <1>6, <2>1 DEF ArgvInv
  <2>2. /\ passed[j] # <<>>
        /\ FirstParameter(arch[j], j) <= Len(argv[j])
        /\ Len(argv[j]) <= FirstEvent(arch[j]) + Len(passed[j])
        /\ \A i \in 1 .. Len(argv[j]) - FirstEvent(arch[j]) :
             argv[j][FirstEvent(arch[j]) + i] =
               [base |-> 16, number |-> Value(j, AllArgs(j)[i])]
    BY DEF ArgInv, ArgvInv
  <2>3. Len(passed[j]) <= Len(AllArgs(j))
    BY <2>2 DEF ArgInv, PassedInv
  <2>4. Len(passed[j]) \in Nat /\ Len(argv[j]) \in Nat /\ FirstEvent(arch[j]) \in Nat
    BY LengthFacts DEF ArgInv
  <2>5. ASSUME NEW i \in 1 .. Len(argv[j]) - FirstEvent(arch[j])
        PROVE  AllArgs(j)'[i] = AllArgs(j)[i]
    <3>1. i \in 1 .. Len(AllArgs(j))
      BY <1>7, <2>2, <2>3, <2>4
    <3> QED BY <1>7, <3>1
  <2> QED BY <2>2, <2>5
<1> QED BY <1>1, <1>2, <1>4, <1>5, <1>8, <1>9 DEF ArgInv

\* Looking a value up fails only for a kernel that the argument does not belong to.
LEMMA ValuesKnown ==
  ASSUME ArgInv, Allocated, NEW k \in Kernel, NEW a \in Argument, Value(k, a) = Unset
  PROVE  \/ a.type = "BUFFER" /\ k \notin KernelsIn[a.of] \cup KernelsOut[a.of]
         \/ a.type = "EVENT" /\ k \notin EventKernels[a.of]
<1>1. TypeOK /\ GivenInv /\ WindowInv
  BY DEF ArgInv, IInv
<1>2. CASE a.type = "SCALAR"
  BY <1>1, <1>2, ValueFacts, ArgumentFacts
<1>3. CASE a.type = "BUFFER"
  <2>1. a.of \in Buffer /\ vbuffer[k][a.of] = Unset
    BY <1>1, <1>3, ValueFacts, ArgumentFacts
  <2> DEFINE b == a.of
  <2>2. left.buffers = {}
    BY DEF Allocated
  <2>3. <<k, b, "in">> \notin BufferWork /\ <<k, b, "out">> \notin BufferWork
    BY <1>1, <2>1, <2>2 DEF GivenInv
  <2>4. k \notin KernelsIn[b] \cup KernelsOut[b]
    BY <2>1, <2>3 DEF BufferWork
  <2> QED BY <1>3, <2>4
<1>4. CASE a.type = "EVENT"
  <2>1. a.of \in Event /\ vevent[k][a.of] = Unset
    BY <1>1, <1>4, ValueFacts, ArgumentFacts
  <2>2. ASSUME k \in EventKernels[a.of] PROVE FALSE
    <3>1. <<k, a.of>> \in EventWork \ left.events
      BY <2>1, <2>2 DEF EventWork, Allocated
    <3>2. EventAddress(k, a.of) = Unset
      BY <1>1, <2>1, <3>1 DEF WindowInv
    <3>3. EventAddress(k, a.of) \in Nat
      BY <1>1, <2>1, AddressNatural
    <3> QED BY <3>2, <3>3
  <2> QED BY <1>4, <2>2
<1> QED BY <1>2, <1>3, <1>4, ArgumentFacts

\* mango_set_args: a missing address ends the process, but not for an argument
\* that belongs to the kernel once resource allocation has ended.
LEMMA SetArgsInv ==
  ASSUME ArgInv, Running, UNCHANGED vars, NEW k \in Kernel, ~ Begun \/ Allocated, SetArgs(k)
  PROVE  ArgInv'
<1> DEFINE as == AllArgs(k)
           own == Len(OwnEvents[k])
           n == own + Len(args[k])
<1>1. IInv' /\ ExactInv'
  BY StutterInvariant DEF ArgInv, vars, ExactInv, EventAddress
<1>2. args' = args /\ argv' = argv
  BY DEF SetArgs
<1>3. args[k] \in Seq(Argument)
  BY DEF ArgInv
<1>4. /\ own \in Nat \ {0} /\ Len(args[k]) \in Nat
      /\ as \in Seq(Argument) /\ Len(as) = n /\ DOMAIN as = 1 .. n
      /\ \A i \in 1 .. own : /\ OwnEvents[k][i] \in Event
                             /\ k \in EventKernels[OwnEvents[k][i]]
                             /\ as[i] = EventArg(OwnEvents[k][i])
      /\ \A i \in 1 .. Len(args[k]) : as[own + i] = args[k][i]
  BY <1>3, AllArgsFacts DEF AllArgs
<1>5. \A i \in 1 .. n : as[i] \in Argument
  BY <1>4
<1>6. arch' = arch /\ Allocated' = Allocated /\ \A j, c : Value(j, c)' = Value(j, c)
  BY DEF vars, Allocated, Value
<1>7. \A j : AllArgs(j)' = AllArgs(j)
  BY <1>2 DEF AllArgs
<1> HIDE DEF as
<1>8. CASE \E i \in DOMAIN as : Value(k, as[i]) = Unset
  <2>1. status' = "no address" /\ passed' = passed
    BY <1>8 DEF SetArgs, as
  <2>2. PassedInv' /\ ArgvInv'
    BY <1>2, <1>6, <1>7, <2>1 DEF ArgInv, PassedInv, ArgvInv
  <2>3. AddressesKnown'
    <3>1. CASE ~ Allocated
      BY <1>6, <3>1 DEF AddressesKnown
    <3>2. CASE Allocated
      <4>1. PICK i \in 1 .. n : Value(k, as[i]) = Unset
        BY <1>4, <1>8
      <4> DEFINE a == as[i]
      <4>2. \/ a.type = "BUFFER" /\ k \notin KernelsIn[a.of] \cup KernelsOut[a.of]
            \/ a.type = "EVENT" /\ k \notin EventKernels[a.of]
        BY <1>5, <3>2, <4>1, ValuesKnown
      <4>3. ASSUME i <= own PROVE FALSE
        <5>1. i \in 1 .. own
          BY <1>4, <4>1, <4>3
        <5>2. a = EventArg(OwnEvents[k][i]) /\ k \in EventKernels[OwnEvents[k][i]]
          BY <1>4, <5>1
        <5>3. a.type = "EVENT" /\ a.of = OwnEvents[k][i]
          BY <5>2 DEF EventArg
        <5> QED BY <4>2, <5>2, <5>3
      <4>4. PICK m \in 1 .. Len(args[k]) : i = own + m
        <5>1. i - own \in 1 .. Len(args[k]) /\ i = own + (i - own)
          BY <1>4, <4>1, <4>3
        <5> QED BY <5>1
      <4>5. a = args[k][m]
        BY <1>4, <4>4
      <4>6. m \in DOMAIN args[k]
        BY <1>3, <4>4
      <4> QED BY <1>2, <4>2, <4>5, <4>6 DEF AddressesKnown
    <3> QED BY <3>1, <3>2
  <2> QED BY <1>1, <1>2, <2>1, <2>2, <2>3 DEF ArgInv
<1>9. CASE ~ \E i \in DOMAIN as : Value(k, as[i]) = Unset
  <2>1. /\ status' = status
        /\ passed' = [passed EXCEPT ![k] = [i \in DOMAIN as |-> Value(k, as[i])]]
    BY <1>9 DEF SetArgs, as
  <2>2. Allocated
    <3>1. ASSUME ~ Begun PROVE FALSE
      <4>1. left.images # {}
        BY <3>1 DEF Begun
      <4>2. 1 \in 1 .. own /\ 1 \in DOMAIN as
        BY <1>4
      <4>3. as[1] = EventArg(OwnEvents[k][1]) /\ OwnEvents[k][1] \in Event
        BY <1>4, <4>2
      <4>4. Value(k, as[1]) = vevent[k][OwnEvents[k][1]]
        BY <4>3 DEF Value, EventArg
      <4>5. vevent[k][OwnEvents[k][1]] = Unset
        BY <4>1, <4>3 DEF ArgInv, ExactInv
      <4> QED BY <1>9, <4>2, <4>4, <4>5
    <3> QED BY <3>1
  <2> DEFINE values == [i \in 1 .. n |-> Value(k, as[i])]
  <2>3. \A i \in 1 .. n : Value(k, as[i]) \in Nat
    <3> SUFFICES ASSUME NEW i \in 1 .. n PROVE Value(k, as[i]) \in Nat
      OBVIOUS
    <3>1. Value(k, as[i]) \in Nat \cup {Unset}
      BY <1>5, ValueFacts DEF ArgInv, IInv
    <3> QED BY <1>4, <1>9, <3>1
  <2>4. /\ passed' = [passed EXCEPT ![k] = values]
        /\ n \in Nat \ {0} /\ own <= n
        /\ values \in Seq(Nat) /\ Len(values) = n /\ values # <<>>
        /\ \A i \in 1 .. n : values[i] = Value(k, as[i])
    <3>1. n \in Nat \ {0} /\ own <= n
      BY <1>4
    <3>2. values \in [1 .. n -> Nat] /\ n \in Nat
      BY <2>3, <3>1
    <3>3. values \in Seq(Nat) /\ Len(values) = n
      <4> HIDE DEF values, n
      <4> QED BY <3>2, FunctionIsSeq
    <3> QED BY <1>4, <2>1, <3>1, <3>3
  <2> HIDE DEF values
  <2>5. passed \in [Kernel -> Seq(Nat)]
    BY DEF ArgInv, PassedInv
  <2>6. passed' \in [Kernel -> Seq(Nat)] /\ passed'[k] = values
        /\ \A j \in Kernel : j # k => passed'[j] = passed[j]
    BY <2>4, <2>5
  <2>7. PassedInv'
    <3> SUFFICES ASSUME NEW j \in Kernel, passed'[j] # <<>>
                 PROVE  /\ Len(OwnEvents[j]) <= Len(passed'[j])
                        /\ Len(passed'[j]) <= Len(AllArgs(j))
                        /\ \A i \in 1 .. Len(passed'[j]) :
                             passed'[j][i] = Value(j, AllArgs(j)[i])
      BY <1>6, <1>7, <2>2, <2>6 DEF PassedInv
    <3>1. CASE j = k
      BY <1>4, <2>4, <2>6, <3>1 DEF as
    <3>2. CASE j # k
      BY <2>6, <3>2 DEF ArgInv, PassedInv
    <3> QED BY <3>1, <3>2
  <2>8. ArgvInv'
    <3>1. ASSUME NEW j \in Kernel, argv[j] # <<>>
          PROVE  passed'[j] # <<>> /\ Len(argv[j]) <= FirstEvent(arch[j]) + Len(passed'[j])
      <4>1. passed[j] # <<>> /\ Len(argv[j]) <= FirstEvent(arch[j]) + Len(passed[j])
        BY <3>1 DEF ArgInv, ArgvInv
      <4>2. CASE j # k
        BY <2>6, <4>1, <4>2
      <4>3. CASE j = k
        <5>1. Len(passed[k]) <= n
          BY <1>4, <4>1, <4>3 DEF ArgInv, PassedInv, as
        <5>2. Len(passed[k]) \in Nat /\ Len(argv[k]) \in Nat /\ FirstEvent(arch[k]) \in Nat
          BY LengthFacts DEF ArgInv
        <5> QED BY <2>4, <2>6, <4>1, <4>3, <5>1, <5>2
      <4> QED BY <4>2, <4>3
    <3> QED BY <1>2, <1>6, <1>7, <3>1 DEF ArgInv, ArgvInv
  <2>9. AddressesKnown'
    BY <2>1 DEF AddressesKnown, Running
  <2> QED BY <1>1, <1>2, <2>1, <2>7, <2>8, <2>9 DEF ArgInv
<1> QED BY <1>8, <1>9

\* Context::start_kernel: everything from the first event on is in base 16.
LEMMA StartKernelInv ==
  ASSUME ArgInv, Running, UNCHANGED vars, NEW k \in Kernel, StartKernel(k)
  PROVE  ArgInv'
<1> DEFINE first == FirstWords(arch[k])
           f == FirstEvent(arch[k])
           n == Len(passed[k])
           own == Len(OwnEvents[k])
           words == Words(k)
<1>1. IInv' /\ ExactInv'
  BY StutterInvariant DEF ArgInv, vars, ExactInv, EventAddress
<1>2. args' = args /\ passed' = passed /\ status' = status /\ passed[k] # <<>>
  BY DEF StartKernel
<1>3. arch' = arch /\ Allocated' = Allocated /\ \A j, c : Value(j, c)' = Value(j, c)
  BY DEF vars, Allocated, Value
<1>4. \A j : AllArgs(j)' = AllArgs(j)
  BY <1>2 DEF AllArgs
<1>5. PassedInv'
  BY <1>2, <1>3, <1>4 DEF ArgInv, PassedInv
<1>6. AddressesKnown'
  BY <1>2 DEF AddressesKnown, Running
<1>7. /\ n \in Nat /\ DOMAIN passed[k] = 1 .. n /\ f \in Nat
      /\ \A i \in 1 .. n : passed[k][i] \in Nat
  BY LengthFacts DEF ArgInv
<1>8. own <= n /\ \A i \in 1 .. n : passed[k][i] = Value(k, AllArgs(k)[i])
  BY <1>2 DEF ArgInv, PassedInv
<1>9. AllArgs(k)[1].type # "SCALAR" /\ own \in Nat \ {0}
  <2>1. args[k] \in Seq(Argument)
    BY DEF ArgInv
  <2>2. own \in Nat \ {0} /\ \A i \in 1 .. own : AllArgs(k)[i] = EventArg(OwnEvents[k][i])
    BY <2>1, AllArgsFacts DEF AllArgs
  <2>3. AllArgs(k)[1] = EventArg(OwnEvents[k][1])
    BY <2>2
  <2>4. EventArg(OwnEvents[k][1]).type = "EVENT"
    BY DEF EventArg
  <2> QED BY <2>2, <2>3, <2>4
<1>10. ASSUME NEW i \in 1 .. n
       PROVE  words[i] = [base |-> 16, number |-> Value(k, AllArgs(k)[i])] /\ words[i] \in PrintedWord
  <2>1. 1 \in 1 .. i
    OBVIOUS
  <2>2. PrintBase(AllArgs(k), i) = 16
    BY <1>9, <2>1 DEF PrintBase
  <2>3. words[i] = [base |-> 16, number |-> passed[k][i]]
    BY <1>7, <2>2 DEF Words
  <2> QED BY <1>7, <1>8, <2>3 DEF PrintedWord
<1>11. words \in Seq(PrintedWord) /\ Len(words) = n
  <2>1. words \in [1 .. n -> PrintedWord]
    <3>1. words = [i \in 1 .. n |-> words[i]]
      BY <1>7 DEF Words
    <3> HIDE DEF words
    <3> QED BY <1>10, <3>1
  <2> HIDE DEF words, n
  <2> QED BY <1>7, <2>1, FunctionIsSeq
<1>12. first \in Seq(PrintedWord) /\ Len(first) = f
  BY FirstWordsFacts
<1> HIDE DEF words, first
<1>13. /\ first \o words \in Seq(PrintedWord)
       /\ Len(first \o words) = f + n
       /\ \A i \in 1 .. f + n : (first \o words)[i] = IF i <= f THEN first[i] ELSE words[i - f]
  <2> HIDE DEF f, n
  <2>1. /\ first \o words \in Seq(PrintedWord)
        /\ Len(first \o words) = Len(first) + Len(words)
        /\ \A i \in 1 .. Len(first) + Len(words) :
             (first \o words)[i] =
               IF i <= Len(first) THEN first[i] ELSE words[i - Len(first)]
    BY <1>11, <1>12, ConcatProperties
  <2> QED BY <1>11, <1>12, <2>1
<1>14. ASSUME NEW i \in 1 .. n
       PROVE  (first \o words)[f + i] = [base |-> 16, number |-> Value(k, AllArgs(k)[i])]
  <2> HIDE DEF f, n
  <2>1. f + i \in 1 .. f + n /\ ~ (f + i <= f) /\ (f + i) - f = i
    BY <1>7
  <2>2. (first \o words)[f + i] = words[i]
    BY <1>13, <2>1
  <2> QED BY <1>10, <2>2
<1>15. argv \in [Kernel -> Seq(PrintedWord)] /\ argv' = [argv EXCEPT ![k] = first \o words]
  BY DEF ArgInv, ArgvInv, StartKernel, first, words
<1>16. ArgvInv'
  <2>1. argv' \in [Kernel -> Seq(PrintedWord)] /\ argv'[k] = first \o words
        /\ \A j \in Kernel : j # k => argv'[j] = argv[j]
    BY <1>13, <1>15
  <2> SUFFICES ASSUME NEW j \in Kernel, argv'[j] # <<>>
               PROVE  /\ passed[j] # <<>>
                      /\ FirstParameter(arch[j], j) <= Len(argv'[j])
                      /\ Len(argv'[j]) <= FirstEvent(arch[j]) + Len(passed[j])
                      /\ \A i \in 1 .. Len(argv'[j]) - FirstEvent(arch[j]) :
                           argv'[j][FirstEvent(arch[j]) + i] =
                             [base |-> 16, number |-> Value(j, AllArgs(j)[i])]
    BY <1>2, <1>3, <1>4, <2>1 DEF ArgvInv
  <2>2. CASE j = k
    <3>1. Len(argv'[k]) = f + n /\ Len(argv'[k]) - f = n
      BY <1>7, <1>13, <2>1
    <3>2. FirstParameter(arch[k], k) = f + own
      BY DEF FirstParameter, FirstEvent
    <3>3. f + own <= f + n
      BY <1>7, <1>8, <1>9
    <3>4. \A i \in 1 .. Len(argv'[k]) - f :
            argv'[k][f + i] = [base |-> 16, number |-> Value(k, AllArgs(k)[i])]
      BY <1>14, <2>1, <3>1
    <3>5. FirstParameter(arch[k], k) <= Len(argv'[k]) /\ Len(argv'[k]) <= f + n
      BY <1>7, <3>1, <3>2, <3>3
    <3> QED BY <1>2, <2>2, <3>4, <3>5
  <2>3. CASE j # k
    BY <2>1, <2>3 DEF ArgInv, ArgvInv
  <2> QED BY <2>2, <2>3
<1> QED BY <1>1, <1>2, <1>5, <1>6, <1>16 DEF ArgInv

\* Every step preserves the invariant.
LEMMA ArgNextInv == ArgInv /\ [ArgNext]_<<vars, argVars>> => ArgInv'
<1> SUFFICES ASSUME ArgInv, [ArgNext]_<<vars, argVars>> PROVE ArgInv'
  OBVIOUS
<1>1. ASSUME UNCHANGED vars, UNCHANGED <<args, passed, argv>>, status' = "unknown buffer"
      PROVE  ArgInv'
  <2>1. IInv' /\ ExactInv'
    BY <1>1, StutterInvariant DEF ArgInv, vars, ExactInv, EventAddress
  <2>2. \A j : AllArgs(j)' = AllArgs(j)
    BY <1>1 DEF AllArgs
  <2>3. arch' = arch /\ Allocated' = Allocated /\ \A j, c : Value(j, c)' = Value(j, c)
    BY <1>1 DEF vars, Allocated, Value
  <2>4. PassedInv' /\ ArgvInv'
    BY <1>1, <2>2, <2>3 DEF ArgInv, PassedInv, ArgvInv
  <2>5. AddressesKnown'
    BY <1>1, <2>3 DEF ArgInv, AddressesKnown
  <2> QED BY <1>1, <2>1, <2>4, <2>5 DEF ArgInv
<1>2. CASE UNCHANGED <<vars, argVars>>
  <2>1. IInv' /\ ExactInv'
    BY <1>2, StutterInvariant DEF ArgInv, vars, ExactInv, EventAddress
  <2>2. arch' = arch /\ Allocated' = Allocated /\ \A j, c : Value(j, c)' = Value(j, c)
    BY <1>2 DEF vars, Allocated, Value
  <2>3. /\ args' = args /\ passed' = passed /\ argv' = argv /\ status' = status
        /\ \A j : AllArgs(j)' = AllArgs(j)
    BY <1>2 DEF argVars, AllArgs
  <2>4. PassedInv' /\ ArgvInv' /\ AddressesKnown'
    BY <2>2, <2>3 DEF ArgInv, PassedInv, ArgvInv, AddressesKnown
  <2> QED BY <2>1, <2>3, <2>4 DEF ArgInv
<1>3. ASSUME Running, NEW k \in Kernel, ArgStep(k), UNCHANGED vars
      PROVE  ArgInv'
  <2>1. ASSUME NEW a \in Argument, MakeArg(k, a) PROVE ArgInv'
    BY <1>3, <2>1, MakeArgInv
  <2>2. ASSUME NEW v \in Scalars, SetScalar(k, v) PROVE ArgInv'
    <3>1. ScalarArg(v, Truncated(v)) \in Argument
      BY DEF Argument
    <3> QED BY <2>1, <2>2, <3>1 DEF SetScalar
  <2>3. ASSUME NEW b \in Buffer, SetBuffer(k, b) PROVE ArgInv'
    <3>1. BufferArg(b) \in Argument
      BY DEF Argument
    <3> QED BY <2>1, <2>3, <3>1 DEF SetBuffer
  <2>4. ASSUME NEW i \in DOMAIN args[k], SetEvent(k, i) PROVE ArgInv'
    <3>1. args[k][i] \in Argument
      BY <2>4, ArgsAreArguments
    <3>2. \A b \in Buffer : EventArg(BufferEvent[b]) \in Argument
      BY DEF Argument
    <3>3. CASE \E b \in Buffer : MakeArg(k, EventArg(BufferEvent[b]))
      BY <2>1, <3>2, <3>3
    <3>4. CASE status' = "unknown buffer" /\ UNCHANGED <<args, passed, argv>>
      BY <1>1, <1>3, <3>4
    <3> QED BY <2>4, <3>1, <3>3, <3>4, ArgumentFacts DEF SetEvent
  <2>5. ASSUME ~ Begun \/ Allocated, SetArgs(k) PROVE ArgInv'
    BY <1>3, <2>5, SetArgsInv
  <2>6. ASSUME StartKernel(k) PROVE ArgInv'
    BY <1>3, <2>6, StartKernelInv
  <2> QED BY <1>3, <2>2, <2>3, <2>4, <2>5, <2>6 DEF ArgStep
<1>4. ASSUME Running, Next, UNCHANGED argVars PROVE ArgInv'
  BY <1>4, ManagerStep
<1> QED BY <1>2, <1>3, <1>4 DEF ArgNext, Ended

\* Values are those of the memory manager, and all words are hexadecimal, at
\* any time.
THEOREM ArgumentInvariant == ArgSpec => []ArgInv
BY ArgInitInv, ArgNextInv, PTL DEF ArgSpec

\* There are at most as many values as arguments.
LEMMA PassedLength ==
  ASSUME ArgInv, NEW k \in Kernel
  PROVE  passed[k] \in Seq(Nat) /\ Len(passed[k]) <= Len(AllArgs(k))
<1>1. passed[k] \in Seq(Nat)
  BY DEF ArgInv, PassedInv
<1>2. CASE passed[k] # <<>>
  BY <1>2 DEF ArgInv, PassedInv
<1>3. CASE passed[k] = <<>>
  <2>1. args[k] \in Seq(Argument)
    BY DEF ArgInv
  <2>2. AllArgs(k) \in Seq(Argument)
    BY <2>1, AllArgsFacts DEF AllArgs
  <2> DEFINE m == Len(AllArgs(k))
  <2>3. m \in Nat
    BY <2>2
  <2> HIDE DEF m
  <2>4. Len(passed[k]) = 0
    BY <1>3, EmptySeq
  <2>5. 0 <= m
    BY <2>3
  <2> QED BY <1>1, <2>4, <2>5 DEF m
<1> QED BY <1>1, <1>2, <1>3

\* Values of arguments fit into mango_size_t, and the string has a word for
\* each of them (host/include/kernel_arguments.h).
THEOREM ArgumentTypes == ArgSpec => []ArgTypeOK
<1>1. ASSUME ArgInv PROVE ArgTypeOK
  <2> USE <1>1 DEF ArgInv
  <2>1. ASSUME NEW k \in Kernel, NEW i \in DOMAIN args[k]
        PROVE  /\ args[k][i].type \in {"SCALAR", "BUFFER", "EVENT"}
               /\ args[k][i].value \in 0 .. Word - 1
    BY ArgumentFacts, ArgsAreArguments
  <2>2. ASSUME NEW k \in Kernel
        PROVE  passed[k] \in Seq(Nat) /\ Len(passed[k]) <= Len(AllArgs(k))
    BY <1>1, PassedLength
  <2>3. ASSUME NEW k \in Kernel, argv[k] # <<>>
        PROVE  Len(argv[k]) <= Len(FirstWords(arch[k])) + Len(passed[k])
    BY <2>3, FirstWordsFacts DEF ArgvInv
  <2> QED BY <2>1, <2>2, <2>3 DEF ArgTypeOK
<1> QED BY <1>1, ArgumentInvariant, PTL

\* Only an argument of a buffer or event that the kernel was not registered with
\* makes setting the arguments end the process, once the resource allocation has
\* ended (host/src/kernel_arguments.cpp:70).
THEOREM AddressesAreKnown == ArgSpec => []AddressesKnown
<1>1. ArgInv => AddressesKnown
  BY DEF ArgInv
<1> QED BY <1>1, ArgumentInvariant, PTL

\* The addresses given are at most the largest long of the kernel's unit.  On
\* PEAK this is so in particular if its buffers fit into their region, which
\* ends below 2^31; nothing in mm.cpp ensures it.
AddressesFit ==
  \A k \in Kernel : arch[k] \in Reader =>
    /\ \A b \in Buffer : vbuffer[k][b] <= LongMax[arch[k]]
    /\ \A e \in Event : vevent[k][e] <= LongMax[arch[k]]

\* The address of a buffer or event that has been set is translated to it; a
\* scalar of the right size is the application's.
LEMMA ValueArrives ==
  ASSUME ArgInv, AddressesFit, Allocated, NEW k \in Kernel, arch[k] \in Reader,
         NEW a \in Argument, Value(k, a) # Unset
  PROVE  Arrives(k, a, Strtol(arch[k], [base |-> 16, number |-> Value(k, a)]))
<1> DEFINE v == Value(k, a)
           n == Strtol(arch[k], [base |-> 16, number |-> v])
<1>1. TypeOK /\ ResolveInv /\ WindowInv /\ ExactInv
  BY DEF ArgInv, IInv
<1>2. v \in Nat
  BY <1>1, ValueFacts
<1>3. n = IF v > LongMax[arch[k]] THEN LongMax[arch[k]] ELSE v
  BY DEF Strtol
<1>4. CASE a.type = "SCALAR"
  <2>1. v = a.value /\ (a.meant < Word => a.value = a.meant)
    BY <1>1, <1>4, ValueFacts, ArgumentFacts
  <2>2. LongMax[arch[k]] \in Nat
    OBVIOUS
  <2>3. a.meant < Word /\ a.meant <= LongMax[arch[k]] => n = a.meant
    BY <1>2, <1>3, <2>1, <2>2
  <2> QED BY <1>4, <2>3 DEF Arrives
<1>5. CASE a.type = "BUFFER"
  <2>1. a.of \in Buffer /\ v = vbuffer[k][a.of]
    BY <1>1, <1>5, ValueFacts, ArgumentFacts
  <2>2. n = vbuffer[k][a.of]
    <3>1. v <= LongMax[arch[k]] /\ LongMax[arch[k]] \in Nat
      BY <2>1 DEF AddressesFit
    <3> QED BY <1>2, <1>3, <2>1, <3>1
  <2>3. CASE arch[k] = "GN"
    BY <1>1, <1>5, <2>1, <2>2, <2>3 DEF ExactInv, Arrives
  <2>4. CASE arch[k] # "GN"
    <3>1. \E r \in tlb[k] : r.of = a.of /\ r.first = n
      BY <1>1, <2>1, <2>2, <2>4 DEF ResolveInv
    <3> QED BY <1>5, <2>4, <3>1 DEF Arrives
  <2> QED BY <2>3, <2>4
<1>6. CASE a.type = "EVENT"
  <2>1. a.of \in Event /\ v = vevent[k][a.of]
    BY <1>1, <1>6, ValueFacts, ArgumentFacts
  <2>2. n = EventAddress(k, a.of)
    <3>1. v <= LongMax[arch[k]] /\ LongMax[arch[k]] \in Nat
      BY <2>1 DEF AddressesFit
    <3>2. v = EventAddress(k, a.of)
      BY <1>1, <2>1 DEF ExactInv
    <3> QED BY <1>2, <1>3, <3>1, <3>2
  <2>3. CASE arch[k] = "GN"
    BY <1>6, <2>2, <2>3 DEF EventAddress, Arrives
  <2>4. CASE arch[k] # "GN"
    <3>1. PICK r \in tlb[k] : r.of = "events" /\ r.first = SynchBase[arch[k]]
      BY <1>1, <2>4 DEF WindowInv, IsWindow, Allocated
    <3>2. n = SynchBase[arch[k]] + EventPhys[a.of]
      BY <2>2, <2>4 DEF EventAddress
    <3>3. SynchBase[arch[k]] \in Nat /\ EventPhys[a.of] \in Nat
      <4>1. SynchBase[arch[k]] \in Nat
        BY <2>4, LayoutAssumption
      <4>2. EventPhys[a.of] \in 0 .. SynchSize - 1
        BY <2>1, GraphAssumption
      <4> QED BY <4>1, <4>2, LayoutAssumption
    <3>4. n - r.first = EventPhys[a.of]
      BY <3>1, <3>2, <3>3
    <3> QED BY <1>6, <2>4, <3>1, <3>4 DEF Arrives
  <2> QED BY <2>3, <2>4
<1> QED BY <1>4, <1>5, <1>6, ArgumentFacts

\* What the kernel reads in its i-th word behind the first ones.
LEMMA WordArrives ==
  ASSUME ArgInv, AddressesFit, NEW k \in Kernel, argv[k] # <<>>, arch[k] \in Reader,
         NEW i \in 1 .. Len(argv[k]) - FirstEvent(arch[k])
  PROVE  Arrives(k, AllArgs(k)[i], Strtol(arch[k], argv[k][FirstEvent(arch[k]) + i]))
<1> DEFINE f == FirstEvent(arch[k])
           a == AllArgs(k)[i]
<1>1. /\ passed[k] # <<>> /\ Len(argv[k]) <= f + Len(passed[k])
      /\ argv[k][f + i] = [base |-> 16, number |-> Value(k, a)]
  BY DEF ArgInv, ArgvInv
<1>2. Len(passed[k]) \in Nat /\ Len(argv[k]) \in Nat /\ f \in Nat
      /\ passed[k] \in [1 .. Len(passed[k]) -> Nat]
  BY LengthFacts DEF ArgInv
<1>3. /\ Allocated /\ Len(passed[k]) <= Len(AllArgs(k))
      /\ \A j \in 1 .. Len(passed[k]) : passed[k][j] = Value(k, AllArgs(k)[j])
  BY <1>1 DEF ArgInv, PassedInv
<1>4. args[k] \in Seq(Argument)
  BY DEF ArgInv
<1>5. AllArgs(k) \in Seq(Argument) /\ Len(AllArgs(k)) \in Nat
  BY <1>4, AllArgsFacts DEF AllArgs
<1>6. i \in 1 .. Len(passed[k])
  <2> HIDE DEF f
  <2>1. i \in 1 .. Len(argv[k]) - f
    BY DEF f
  <2> QED BY <1>1, <1>2, <2>1
<1>7. i \in 1 .. Len(AllArgs(k))
  BY <1>2, <1>3, <1>5, <1>6
<1>8. a \in Argument
  BY <1>5, <1>7
<1>9. Value(k, a) # Unset
  BY <1>2, <1>3, <1>6
<1> HIDE DEF a
<1> QED BY <1>1, <1>3, <1>8, <1>9, ValueArrives DEF a

\* A kernel on GN or PEAK gets its events and its parameters, in the order in
\* which they were made; only scalars too large for a word, or for a long on
\* PEAK, and addresses too large for a long, arrive as other numbers.
THEOREM ArgumentsAlwaysArrive == ArgSpec => [](AddressesFit => ArgumentsArrive)
<1>1. ASSUME ArgInv, AddressesFit, NEW k \in Kernel, argv[k] # <<>>, arch[k] \in Reader
      PROVE  LET own == Len(OwnEvents[k]) IN
             /\ \A i \in 1 .. own : Arrives(k, EventArg(OwnEvents[k][i]), OwnEventRead(k, i))
             /\ \A i \in 1 .. Len(argv[k]) - FirstParameter(arch[k], k) :
                  Arrives(k, args[k][i], Parameter(k, i))
  <2> DEFINE own == Len(OwnEvents[k])
             f == FirstEvent(arch[k])
             n == Len(argv[k])
  <2>1. args[k] \in Seq(Argument)
    BY <1>1 DEF ArgInv
  <2>2. /\ own \in Nat \ {0} /\ Len(args[k]) \in Nat
        /\ Len(AllArgs(k)) = own + Len(args[k])
        /\ \A i \in 1 .. own : AllArgs(k)[i] = EventArg(OwnEvents[k][i])
        /\ \A i \in 1 .. Len(args[k]) : AllArgs(k)[own + i] = args[k][i]
    BY <2>1, AllArgsFacts DEF AllArgs
  <2>3. n \in Nat /\ f \in Nat /\ Len(passed[k]) \in Nat
    BY <1>1, LengthFacts DEF ArgInv
  <2>4. FirstParameter(arch[k], k) = f + own
    BY DEF FirstParameter, FirstEvent
  <2>5. f + own <= n /\ n <= f + Len(passed[k]) /\ Len(passed[k]) <= Len(AllArgs(k))
    BY <1>1, <2>4 DEF ArgInv, ArgvInv, PassedInv
  <2>6. \A i \in 1 .. n - f : Arrives(k, AllArgs(k)[i], Strtol(arch[k], argv[k][f + i]))
    BY <1>1, WordArrives
  <2>7. ASSUME NEW i \in 1 .. own
        PROVE  Arrives(k, EventArg(OwnEvents[k][i]), OwnEventRead(k, i))
    <3>1. OwnEventRead(k, i) = Strtol(arch[k], argv[k][f + i])
      BY DEF OwnEventRead
    <3> HIDE DEF own, f, n
    <3>2. i \in 1 .. n - f
      BY <2>2, <2>3, <2>5
    <3> QED BY <2>2, <2>6, <3>1, <3>2
  <2>8. ASSUME NEW i \in 1 .. n - FirstParameter(arch[k], k)
        PROVE  Arrives(k, args[k][i], Parameter(k, i))
    <3>1. Parameter(k, i) = Strtol(arch[k], argv[k][(f + own) + i])
      BY <2>4 DEF Parameter
    <3> HIDE DEF own, f, n
    <3>2. own + i \in 1 .. n - f /\ (f + own) + i = f + (own + i)
      BY <2>2, <2>3, <2>4, <2>5
    <3>3. i \in 1 .. Len(args[k])
      BY <2>2, <2>3, <2>4, <2>5
    <3> QED BY <2>2, <2>6, <3>1, <3>2, <3>3
  <2> QED BY <2>7, <2>8
<1>2. ArgInv => (AddressesFit => ArgumentsArrive)
  BY <1>1 DEF ArgumentsArrive
<1> QED BY <1>2, ArgumentInvariant, PTL
=============================================================================
