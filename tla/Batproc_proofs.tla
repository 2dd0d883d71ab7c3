--------------------------- MODULE Batproc_proofs ---------------------------
(***************************************************************************)
(* The proofs about BATPROC, for all batch files: the types, a frame for   *)
(* every activation of batch, a CALL inserted once, a record of lines and  *)
(* programs that is exact, IFF blocks that nest, files that stay ended.    *)
(***************************************************************************)
EXTENDS Batproc, SequenceTheorems, FiniteSetTheorems, WellFoundedInduction, TLAPS

-----------------------------------------------------------------------------
(* Sequences: the stack, the frames, the units of a file. *)

\* The length of a sequence without its last element.
LEMMA OneLess ==
  ASSUME NEW n \in Nat \ {0}
  PROVE  /\ (IF 1 <= n - 1 THEN (n - 1) - 1 + 1 ELSE 0) = n - 1
         /\ \A i \in 1..(n - 1) : i \in 1..((n - 1) - 1 + 1) /\ 1 + i - 1 = i
OBVIOUS

\* The length with two more.
LEMMA TwoMore ==
  ASSUME NEW n \in Nat
  PROVE  /\ (n + 1) + 1 = n + 2 /\ n + 1 \in 1..(n + 1)
         /\ \A i \in 1..n : i \in 1..(n + 1)
OBVIOUS

\* The first n elements, as a sequence of their own.
LEMMA Prefix ==
  ASSUME NEW S, NEW s \in Seq(S), NEW n \in 0..Len(s)
  PROVE  /\ SubSeq(s, 1, n) \in Seq(S) /\ Len(SubSeq(s, 1, n)) = n
         /\ \A i \in 1..n : SubSeq(s, 1, n)[i] = s[i]
<1>1. \A i \in 1..n : i \in 1..Len(s) /\ 1 + i - 1 = i
  BY LenProperties
<1>2. \A i \in 1..n : s[i] \in S
  BY <1>1, ElementOfSeq
<1>3. n \in Int /\ (IF 1 <= n THEN n - 1 + 1 ELSE 0) = n /\ n - 1 + 1 = n
  BY LenProperties
<1>4. /\ SubSeq(s, 1, n) \in Seq(S)
      /\ Len(SubSeq(s, 1, n)) = IF 1 <= n THEN n - 1 + 1 ELSE 0
      /\ \A i \in 1..(n - 1 + 1) : SubSeq(s, 1, n)[i] = s[1 + i - 1]
  BY <1>2, <1>3, SubSeqProperties
<1> QED
  BY <1>1, <1>3, <1>4, Zenon

\* One more element.
LEMMA Pushed ==
  ASSUME NEW S, NEW s \in Seq(S), NEW e \in S
  PROVE  /\ Append(s, e) \in Seq(S) /\ Append(s, e) # <<>>
         /\ Len(s) \in Nat /\ Len(Append(s, e)) = Len(s) + 1
         /\ DOMAIN Append(s, e) = 1..(Len(s) + 1)
         /\ \A i \in 1..Len(s) : Append(s, e)[i] = s[i]
         /\ Append(s, e)[Len(s) + 1] = e
         /\ Last(Append(s, e)) = e /\ Front(Append(s, e)) = s
<1>1. /\ Append(s, e) \in Seq(S) /\ Append(s, e) # <<>>
      /\ Len(Append(s, e)) = Len(s) + 1
      /\ \A i \in 1..Len(s) : Append(s, e)[i] = s[i]
      /\ Append(s, e)[Len(s) + 1] = e
  BY AppendProperties
<1>2. Len(s) \in Nat /\ DOMAIN Append(s, e) = 1..Len(Append(s, e))
  BY <1>1, LenProperties
<1>3. Front(Append(s, e)) = SubSeq(Append(s, e), 1, Len(s))
  BY <1>1, <1>2 DEF Front
<1>4. Len(s) \in 0..Len(Append(s, e))
  BY <1>1, <1>2
<1>5. /\ SubSeq(Append(s, e), 1, Len(s)) \in Seq(S)
      /\ Len(SubSeq(Append(s, e), 1, Len(s))) = Len(s)
      /\ \A i \in 1..Len(s) :
            SubSeq(Append(s, e), 1, Len(s))[i] = Append(s, e)[i]
  BY <1>1, <1>4, Prefix
<1>6. \A i \in 1..Len(s) : SubSeq(Append(s, e), 1, Len(s))[i] = s[i]
  BY <1>1, <1>5, Zenon
<1>7. Front(Append(s, e)) = s
  BY <1>3, <1>5, <1>6, SeqEqual, Zenon
<1> QED
  BY <1>1, <1>2, <1>7 DEF Last

\* One less.
LEMMA Popped ==
  ASSUME NEW S, NEW s \in Seq(S), s # <<>>
  PROVE  /\ Front(s) \in Seq(S) /\ Len(Front(s)) = Len(s) - 1
         /\ Len(s) \in Nat \ {0} /\ DOMAIN Front(s) = 1..(Len(s) - 1)
         /\ \A i \in 1..(Len(s) - 1) : Front(s)[i] = s[i]
         /\ Last(s) \in S /\ Last(s) = s[Len(s)]
<1>1. Len(s) \in Nat \ {0}
  BY EmptySeq
<1>2. Len(s) \in 1..Len(s) /\ Len(s) - 1 \in 0..Len(s)
  BY <1>1
<1>3. s[Len(s)] \in S
  BY <1>2, ElementOfSeq
<1>4. /\ Front(s) \in Seq(S) /\ Len(Front(s)) = Len(s) - 1
      /\ \A i \in 1..(Len(s) - 1) : Front(s)[i] = s[i]
  BY <1>2, Prefix DEF Front
<1>5. DOMAIN Front(s) = 1..(Len(s) - 1)
  BY <1>4, LenProperties
<1> QED
  BY <1>1, <1>3, <1>4, <1>5 DEF Last

\* Another one on top.
LEMMA Retopped ==
  ASSUME NEW S, NEW s \in Seq(S), s # <<>>, NEW e \in S
  PROVE  /\ Append(Front(s), e) \in Seq(S) /\ Append(Front(s), e) # <<>>
         /\ Len(s) \in Nat \ {0} /\ Len(Append(Front(s), e)) = Len(s)
         /\ DOMAIN Append(Front(s), e) = 1..Len(s)
         /\ \A i \in 1..(Len(s) - 1) : Append(Front(s), e)[i] = s[i]
         /\ Append(Front(s), e)[Len(s)] = e
         /\ Last(Append(Front(s), e)) = e
         /\ Front(Append(Front(s), e)) = Front(s)
<1>1. /\ Front(s) \in Seq(S) /\ Len(Front(s)) = Len(s) - 1
      /\ Len(s) \in Nat \ {0}
      /\ \A i \in 1..(Len(s) - 1) : Front(s)[i] = s[i]
  BY Popped
<1>2. Len(Front(s)) + 1 = Len(s)
  BY <1>1
<1>3. /\ Append(Front(s), e) \in Seq(S) /\ Append(Front(s), e) # <<>>
      /\ Len(Append(Front(s), e)) = Len(Front(s)) + 1
      /\ DOMAIN Append(Front(s), e) = 1..(Len(Front(s)) + 1)
      /\ \A i \in 1..Len(Front(s)) : Append(Front(s), e)[i] = Front(s)[i]
      /\ Append(Front(s), e)[Len(Front(s)) + 1] = e
      /\ Last(Append(Front(s), e)) = e
      /\ Front(Append(Front(s), e)) = Front(s)
  BY <1>1, Pushed
<1> QED
  BY <1>1, <1>2, <1>3, Zenon

\* Two more.
LEMMA PushedTwo ==
  ASSUME NEW S, NEW s \in Seq(S), NEW d \in S, NEW e \in S
  PROVE  /\ Append(Append(s, d), e) \in Seq(S)
         /\ Append(Append(s, d), e) # <<>>
         /\ Len(s) \in Nat /\ Len(Append(Append(s, d), e)) = Len(s) + 2
         /\ DOMAIN Append(Append(s, d), e) = 1..(Len(s) + 2)
         /\ \A i \in 1..Len(s) : Append(Append(s, d), e)[i] = s[i]
         /\ Append(Append(s, d), e)[Len(s) + 1] = d
         /\ Append(Append(s, d), e)[Len(s) + 2] = e
         /\ Last(Append(Append(s, d), e)) = e
<1>1. /\ Append(s, d) \in Seq(S) /\ Len(Append(s, d)) = Len(s) + 1
      /\ Len(s) \in Nat
      /\ \A i \in 1..Len(s) : Append(s, d)[i] = s[i]
      /\ Append(s, d)[Len(s) + 1] = d
  BY Pushed
<1>2. PICK u : u = Append(s, d)
  OBVIOUS
<1>3. u \in Seq(S)
  BY <1>1, <1>2
<1>4. /\ Append(u, e) \in Seq(S) /\ Append(u, e) # <<>>
      /\ Len(Append(u, e)) = Len(u) + 1
      /\ DOMAIN Append(u, e) = 1..(Len(u) + 1)
      /\ \A i \in 1..Len(u) : Append(u, e)[i] = u[i]
      /\ Append(u, e)[Len(u) + 1] = e /\ Last(Append(u, e)) = e
  BY <1>3, Pushed
<1>5. /\ (Len(s) + 1) + 1 = Len(s) + 2 /\ Len(s) + 1 \in 1..(Len(s) + 1)
      /\ \A i \in 1..Len(s) : i \in 1..(Len(s) + 1)
  BY <1>1, TwoMore, Zenon
<1>6. Len(u) = Len(s) + 1
  BY <1>1, <1>2
<1> QED
  BY <1>1, <1>2, <1>4, <1>5, <1>6, Zenon

-----------------------------------------------------------------------------
(* The activations of batch on a stack. *)

\* Depth, of any stack.
Batches(s, k) == Cardinality({j \in 1..k : s[j].kind = "batch"})

\* The number of them is a number, and grows with each.
LEMMA BatchesCount ==
  ASSUME NEW s, NEW k \in Nat
  PROVE  /\ Batches(s, k) \in Nat
         /\ Batches(s, 0) = 0
         /\ Batches(s, k + 1) =
              IF s[k + 1].kind = "batch" THEN Batches(s, k) + 1 ELSE Batches(s, k)
<1>1. PICK B : B = {j \in 1..k : s[j].kind = "batch"}
  OBVIOUS
<1>2. IsFiniteSet(B) /\ Cardinality(B) \in Nat
  <2>1. IsFiniteSet(1..k) /\ B \subseteq 1..k
    BY <1>1, FS_Interval
  <2> QED
    BY <2>1, FS_Subset, FS_CardinalityType
<1>3. Batches(s, 0) = 0
  <2>1. {j \in 1..0 : s[j].kind = "batch"} = {}
    OBVIOUS
  <2> QED
    BY <2>1, FS_EmptySet DEF Batches
<1>4. CASE s[k + 1].kind = "batch"
  <2>1. {j \in 1..(k + 1) : s[j].kind = "batch"} = B \cup {k + 1}
    BY <1>1, <1>4
  <2>2. k + 1 \notin B
    BY <1>1
  <2>3. Cardinality(B \cup {k + 1}) = Cardinality(B) + 1
    BY <1>2, <2>2, FS_AddElement
  <2> QED
    BY <1>1, <1>2, <1>3, <1>4, <2>1, <2>3 DEF Batches
<1>5. CASE s[k + 1].kind # "batch"
  <2>1. {j \in 1..(k + 1) : s[j].kind = "batch"} = B
    BY <1>1, <1>5
  <2> QED
    BY <1>1, <1>2, <1>3, <1>5, <2>1 DEF Batches
<1> QED
  BY <1>4, <1>5

\* They are counted below k only.
LEMMA BatchesSame ==
  ASSUME NEW s, NEW t, NEW k \in Nat, \A j \in 1..k : t[j].kind = s[j].kind
  PROVE  Batches(t, k) = Batches(s, k)
<1>1. {j \in 1..k : t[j].kind = "batch"} = {j \in 1..k : s[j].kind = "batch"}
  OBVIOUS
<1> QED
  BY <1>1 DEF Batches

\* Each one is deeper than all before.
LEMMA BatchesGrow ==
  ASSUME NEW s, NEW j \in Nat, NEW k \in Nat, j <= k
  PROVE  /\ Batches(s, j) <= Batches(s, k)
         /\ j < k /\ s[k].kind = "batch" => Batches(s, j) < Batches(s, k)
<1>1. PICK A, B : /\ A = {i \in 1..j : s[i].kind = "batch"}
                  /\ B = {i \in 1..k : s[i].kind = "batch"}
  OBVIOUS
<1>2. A \subseteq B /\ IsFiniteSet(B)
  <2>1. IsFiniteSet(1..k) /\ B \subseteq 1..k
    BY <1>1, FS_Interval
  <2> QED
    BY <1>1, <2>1, FS_Subset
<1>3. /\ Cardinality(A) <= Cardinality(B)
      /\ Cardinality(A) = Cardinality(B) => A = B
  BY <1>2, FS_Subset
<1>4. Cardinality(A) = Batches(s, j) /\ Cardinality(B) = Batches(s, k)
  BY <1>1 DEF Batches
<1>5. Batches(s, j) \in Nat /\ Batches(s, k) \in Nat
  BY BatchesCount
<1>6. j < k /\ s[k].kind = "batch" => k \in B /\ k \notin A
  BY <1>1
<1> QED
  BY <1>3, <1>4, <1>5, <1>6

\* Nothing but other activations between n and k: no batch file more.
LEMMA BatchesFlat ==
  ASSUME NEW s, NEW n \in Nat, NEW k \in Nat, n <= k,
         \A i \in (n + 1)..k : s[i].kind # "batch"
  PROVE  Batches(s, k) = Batches(s, n)
<1>1. {j \in 1..k : s[j].kind = "batch"} = {j \in 1..n : s[j].kind = "batch"}
  OBVIOUS
<1> QED
  BY <1>1 DEF Batches

-----------------------------------------------------------------------------
(* The invariant behind the types. *)

\* The three counters, of this file or saved for one below.
Sane(fl) ==
    /\ fl \in [iff : Nat, endiff : Nat, else : {0, 1, WaitEndIff}]
    /\ fl.iff = 0 => fl.endiff = 0 /\ fl.else = 0
    /\ fl.endiff > 0 => fl.else # 0

\* The first command names a batch file, and all else happens inside of it.
StackSane(s) ==
    /\ s \in Seq(Activation)
    /\ \A k \in 1..Len(s) :
          /\ s[k].kind = "batch" => Sane(s[k].save)
          /\ s[k].kind = "gosub" => s[k].offset >= Ended
    /\ Len(s) >= 1 => s[1].kind = "command" /\ s[1].rest \in {<<Start>>, <<>>}
    /\ Len(s) >= 2 => s[2].kind = "batch"

\* A file is written where a line of it has begun.
FrameSane(fr, tx) ==
    /\ fr \in Frame
    /\ fr.read_offset >= Ended
    /\ fr.write_offset <= Len(tx[fr.name])

FramesSane(frames, tx) ==
    /\ frames \in Seq(Frame) /\ Len(frames) <= MaxBatch
    /\ \A i \in 1..Len(frames) : FrameSane(frames[i], tx)

BatInv ==
    /\ text \in [Files -> Seq(Unit)]
    /\ FramesSane(frame, text)
    /\ Sane(flags)
    /\ call_flag \in BOOLEAN /\ for_flag \in BOOLEAN
    /\ StackSane(stack)
    /\ rv \in Results
    /\ Len(frame) = Batches(stack, Len(stack))

\* The activations above the first n are replaced, none of batch among them.
LEMMA Replaced ==
  ASSUME NEW s, StackSane(s), NEW t \in Seq(Activation), NEW n \in Nat,
         n <= Len(s), n <= Len(t),
         \A i \in 1..n : t[i] = s[i],
         \A i \in (n + 1)..Len(s) : s[i].kind # "batch",
         \A i \in (n + 1)..Len(t) :
             /\ t[i].kind # "batch"
             /\ t[i].kind = "gosub" => t[i].offset >= Ended,
         n = 0 /\ Len(t) > 0 => /\ t[1].kind = "command"
                                /\ t[1].rest \in {<<Start>>, <<>>},
         n < 2 => Len(t) < 2
  PROVE  StackSane(t) /\ Batches(t, Len(t)) = Batches(s, Len(s))
<1>1. Len(s) \in Nat /\ Len(t) \in Nat
  BY LenProperties DEF StackSane
<1>2. Batches(t, Len(t)) = Batches(t, n) /\ Batches(s, Len(s)) = Batches(s, n)
  BY <1>1, BatchesFlat
<1>3. Batches(t, n) = Batches(s, n)
  BY BatchesSame
<1>4. \A k \in 1..Len(t) : k \in 1..n \/ k \in (n + 1)..Len(t)
  BY <1>1
<1>5. \A k \in 1..n : k \in 1..Len(s)
  BY <1>1
<1>6. \A k \in 1..Len(t) : /\ t[k].kind = "batch" => Sane(t[k].save)
                           /\ t[k].kind = "gosub" => t[k].offset >= Ended
  <2> SUFFICES ASSUME NEW k \in 1..Len(t)
               PROVE  /\ t[k].kind = "batch" => Sane(t[k].save)
                      /\ t[k].kind = "gosub" => t[k].offset >= Ended
    OBVIOUS
  <2>1. CASE k \in 1..n
    <3>1. t[k] = s[k] /\ k \in 1..Len(s)
      BY <1>5, <2>1
    <3>2. /\ s[k].kind = "batch" => Sane(s[k].save)
          /\ s[k].kind = "gosub" => s[k].offset >= Ended
      BY <3>1 DEF StackSane
    <3> QED
      BY <3>1, <3>2
  <2>2. CASE k \in (n + 1)..Len(t)
    BY <2>2
  <2> QED
    BY <1>4, <2>1, <2>2
<1>7. Len(t) >= 1 => t[1].kind = "command" /\ t[1].rest \in {<<Start>>, <<>>}
  <2>1. CASE n = 0
    BY <1>1, <2>1
  <2>2. CASE n # 0
    <3>1. 1 \in 1..n /\ Len(s) >= 1
      BY <1>1, <2>2
    <3>2. t[1] = s[1]
      BY <3>1
    <3> QED
      BY <3>1, <3>2 DEF StackSane
  <2> QED
    BY <2>1, <2>2
<1>8. Len(t) >= 2 => t[2].kind = "batch"
  <2> SUFFICES ASSUME Len(t) >= 2
               PROVE  t[2].kind = "batch"
    OBVIOUS
  <2>1. n >= 2
    BY <1>1
  <2>2. 2 \in 1..n /\ Len(s) >= 2
    BY <1>1, <2>1
  <2>3. t[2] = s[2]
    BY <2>2
  <2> QED
    BY <2>2, <2>3 DEF StackSane
<1> QED
  BY <1>2, <1>3, <1>6, <1>7, <1>8 DEF StackSane

\* The innermost activation, and those it returns to.
LEMMA Running ==
  ASSUME BatInv, stack # <<>>
  PROVE  /\ stack \in Seq(Activation) /\ Len(stack) \in Nat \ {0}
         /\ Top \in Activation /\ Top = stack[Len(stack)]
         /\ Below \in Seq(Activation) /\ Len(Below) = Len(stack) - 1
         /\ \A i \in 1..(Len(stack) - 1) : Below[i] = stack[i]
         /\ Top.kind # "command" => Len(stack) >= 2
         /\ Top.kind \notin {"command", "batch"} => Len(stack) >= 3
         /\ Top.kind = "command" => Len(stack) = 1 \/ Len(stack) >= 3
<1>1. stack \in Seq(Activation)
  BY DEF BatInv, StackSane
<1>2. /\ Len(stack) \in Nat \ {0}
      /\ Top \in Activation /\ Top = stack[Len(stack)]
      /\ Below \in Seq(Activation) /\ Len(Below) = Len(stack) - 1
      /\ \A i \in 1..(Len(stack) - 1) : Below[i] = stack[i]
  BY <1>1, Popped DEF Top, Below
<1>3. /\ stack[1].kind = "command"
      /\ Len(stack) >= 2 => stack[2].kind = "batch"
  BY <1>2 DEF BatInv, StackSane
<1>4. Len(stack) = 1 \/ Len(stack) = 2 \/ Len(stack) >= 3
  BY <1>2
<1> QED
  BY <1>1, <1>2, <1>3, <1>4

\* There is a frame while a batch file runs.
LEMMA Framed ==
  ASSUME BatInv, Len(stack) >= 2
  PROVE  /\ frame # <<>> /\ frame \in Seq(Frame) /\ Len(frame) \in Nat \ {0}
         /\ bframe \in Frame /\ bframe = frame[Len(frame)]
         /\ FrameSane(bframe, text)
<1>1. stack \in Seq(Activation) /\ Len(stack) \in Nat
  BY LenProperties DEF BatInv, StackSane
<1>2. stack[2].kind = "batch" /\ Batches(stack, 1) \in Nat /\ Batches(stack, 2) \in Nat
  BY BatchesCount DEF BatInv, StackSane
<1>3. Batches(stack, 1) < Batches(stack, 2)
  BY <1>2, BatchesGrow
<1>4. Batches(stack, 2) <= Batches(stack, Len(stack))
  BY <1>1, BatchesGrow
<1>5. Batches(stack, Len(stack)) \in Nat
  BY <1>1, BatchesCount
<1>6. Len(frame) > 0 /\ frame \in Seq(Frame)
  BY <1>2, <1>3, <1>4, <1>5 DEF BatInv, FramesSane
<1>7. frame # <<>>
  BY <1>6, EmptySeq
<1>8. Len(frame) \in Nat \ {0} /\ bframe \in Frame /\ bframe = frame[Len(frame)]
  BY <1>6, <1>7, Popped DEF bframe
<1>9. Len(frame) \in 1..Len(frame)
  BY <1>8
<1> QED
  BY <1>6, <1>7, <1>8, <1>9 DEF BatInv, FramesSane

\* The command about to be carried out, and what is left of its line.
LEMMA Carrying ==
  ASSUME BatInv, AtCommand
  PROVE  /\ stack # <<>> /\ Top.kind = "command"
         /\ Top.rest \in Seq(Cmds) /\ Top.rest # <<>>
         /\ Cur \in Cmds /\ Cur = Top.rest[1] /\ Tail(Top.rest) \in Seq(Cmds)
         /\ Rest \in Seq(Activation) /\ Rest # <<>> /\ Len(Rest) = Len(stack)
         /\ \A i \in 1..(Len(stack) - 1) : Rest[i] = stack[i]
         /\ Rest[Len(stack)] = [kind |-> "command", rest |-> Tail(Top.rest)]
         /\ Last(Rest) = [kind |-> "command", rest |-> Tail(Top.rest)]
         /\ Front(Rest) = Below
         /\ Len(stack) = 1 => Top.rest = <<Start>>
         /\ Op[Cur] # "batch" => Len(stack) >= 3
<1>1. stack # <<>> /\ Top.kind = "command" /\ Top.rest # <<>>
  BY DEF AtCommand, InCommand
<1>2. /\ stack \in Seq(Activation) /\ Top \in Activation
      /\ Top = stack[Len(stack)] /\ Len(stack) \in Nat \ {0}
      /\ Len(stack) = 1 \/ Len(stack) >= 3
  BY <1>1, Running
<1>3. Top \in [kind : {"command"}, rest : Seq(Cmds)]
  BY <1>1, <1>2 DEF Activation
<1>4. Top.rest \in Seq(Cmds)
  BY <1>3
<1>5. Cur \in Cmds /\ Cur = Top.rest[1] /\ Tail(Top.rest) \in Seq(Cmds)
  BY <1>1, <1>4, HeadTailProperties DEF Cur
<1>6. [Top EXCEPT !.rest = Tail(@)] = [kind |-> "command", rest |-> Tail(Top.rest)]
  BY <1>1, <1>3
<1>7. [kind |-> "command", rest |-> Tail(Top.rest)] \in Activation
  BY <1>5 DEF Activation
<1>8. /\ Rest \in Seq(Activation) /\ Rest # <<>> /\ Len(Rest) = Len(stack)
      /\ \A i \in 1..(Len(stack) - 1) : Rest[i] = stack[i]
      /\ Rest[Len(stack)] = [kind |-> "command", rest |-> Tail(Top.rest)]
      /\ Last(Rest) = [kind |-> "command", rest |-> Tail(Top.rest)]
      /\ Front(Rest) = Below
  <2>1. PICK e : e = [kind |-> "command", rest |-> Tail(Top.rest)]
    OBVIOUS
  <2>2. e \in Activation /\ Rest = Append(Front(stack), e) /\ Below = Front(stack)
    BY <1>6, <1>7, <2>1 DEF Rest, Below
  <2>3. /\ Append(Front(stack), e) \in Seq(Activation)
        /\ Append(Front(stack), e) # <<>>
        /\ Len(Append(Front(stack), e)) = Len(stack)
        /\ \A i \in 1..(Len(stack) - 1) : Append(Front(stack), e)[i] = stack[i]
        /\ Append(Front(stack), e)[Len(stack)] = e
        /\ Last(Append(Front(stack), e)) = e
        /\ Front(Append(Front(stack), e)) = Front(stack)
    BY <1>1, <1>2, <2>2, Retopped
  <2> QED
    BY <2>1, <2>2, <2>3, Zenon
<1>9. Len(stack) = 1 => Top.rest = <<Start>>
  <2>1. stack[1].rest \in {<<Start>>, <<>>}
    BY <1>2 DEF BatInv, StackSane
  <2> QED
    BY <1>1, <1>2, <2>1
<1>10. Op[Cur] # "batch" => Len(stack) >= 3
  <2>1. Len(stack) = 1 => Cur = Start
    <3>1. <<Start>>[1] = Start
      OBVIOUS
    <3> QED
      BY <1>5, <1>9, <3>1
  <2> QED
    BY <1>2, <2>1, BatchAssumption
<1> QED
  BY <1>1, <1>4, <1>5, <1>8, <1>9, <1>10

\* An activation other than batch returns.
LEMMA PopSane ==
  ASSUME BatInv, stack # <<>>, Top.kind # "batch"
  PROVE  /\ StackSane(Below)
         /\ Batches(Below, Len(Below)) = Batches(stack, Len(stack))
<1>1. /\ stack \in Seq(Activation) /\ Len(stack) \in Nat \ {0}
      /\ Top = stack[Len(stack)]
      /\ Below \in Seq(Activation) /\ Len(Below) = Len(stack) - 1
      /\ \A i \in 1..(Len(stack) - 1) : Below[i] = stack[i]
  BY Running
<1>2. PICK n : n = Len(stack) - 1
  OBVIOUS
<1>3. n \in Nat /\ n <= Len(stack) /\ Len(Below) = n
  BY <1>1, <1>2
<1>4. \A i \in (n + 1)..Len(stack) : i = Len(stack)
  BY <1>1, <1>2
<1>5. \A i \in (n + 1)..Len(stack) : stack[i].kind # "batch"
  BY <1>1, <1>4
<1>6. \A i \in (n + 1)..Len(Below) : FALSE
  BY <1>3
<1>7. StackSane(stack)
  BY DEF BatInv
<1>8. PICK t : t = Below
  OBVIOUS
<1>9. t \in Seq(Activation) /\ Len(t) = n /\ \A i \in 1..n : t[i] = stack[i]
  BY <1>1, <1>2, <1>3, <1>8
<1>10. \A i \in (n + 1)..Len(t) : FALSE
  BY <1>6, <1>8
<1>11. (n = 0 => ~(Len(t) > 0)) /\ (n < 2 => Len(t) < 2) /\ n <= Len(t)
  BY <1>3, <1>9
<1>12. StackSane(t) /\ Batches(t, Len(t)) = Batches(stack, Len(stack))
  BY <1>3, <1>5, <1>7, <1>9, <1>10, <1>11, Replaced
<1> QED
  BY <1>8, <1>12

\* The innermost activation goes on with less to do.
LEMMA RetopSane ==
  ASSUME BatInv, stack # <<>>, Top.kind # "batch", NEW e \in Activation,
         e.kind \notin {"batch", "gosub"},
         \/ Len(stack) >= 3
         \/ Len(stack) = 1 /\ e.kind = "command" /\ e.rest \in {<<Start>>, <<>>}
  PROVE  /\ StackSane(Append(Below, e)) /\ Len(Append(Below, e)) = Len(stack)
         /\ Batches(Append(Below, e), Len(Append(Below, e))) =
              Batches(stack, Len(stack))
<1>1. /\ stack \in Seq(Activation) /\ Len(stack) \in Nat \ {0}
      /\ Top = stack[Len(stack)]
  BY Running
<1>2. PICK t : t = Append(Below, e)
  OBVIOUS
<1>3. /\ t \in Seq(Activation) /\ Len(t) = Len(stack)
      /\ \A i \in 1..(Len(stack) - 1) : t[i] = stack[i]
      /\ t[Len(stack)] = e
  <2>1. /\ Append(Front(stack), e) \in Seq(Activation)
        /\ Len(Append(Front(stack), e)) = Len(stack)
        /\ \A i \in 1..(Len(stack) - 1) : Append(Front(stack), e)[i] = stack[i]
        /\ Append(Front(stack), e)[Len(stack)] = e
    BY <1>1, Retopped
  <2> QED
    BY <1>2, <2>1, Zenon DEF Below
<1>4. PICK n : n = Len(stack) - 1
  OBVIOUS
<1>5. n \in Nat /\ n <= Len(stack) /\ n <= Len(t)
  BY <1>1, <1>3, <1>4
<1>6. \A i \in (n + 1)..Len(stack) : i = Len(stack)
  BY <1>1, <1>4
<1>7. /\ \A i \in (n + 1)..Len(stack) : stack[i].kind # "batch"
      /\ \A i \in (n + 1)..Len(t) : t[i].kind \notin {"batch", "gosub"}
  BY <1>1, <1>3, <1>6
<1>8. /\ n < 2 => Len(t) < 2
      /\ n = 0 /\ Len(t) > 0 => /\ t[1].kind = "command"
                                /\ t[1].rest \in {<<Start>>, <<>>}
  BY <1>1, <1>3, <1>4
<1>9. StackSane(stack)
  BY DEF BatInv
<1>10. StackSane(t) /\ Batches(t, Len(t)) = Batches(stack, Len(stack))
  BY <1>3, <1>4, <1>5, <1>7, <1>8, <1>9, Replaced
<1> QED
  BY <1>2, <1>3, <1>10

\* A function is called, other than batch.
LEMMA PushSane ==
  ASSUME NEW s, StackSane(s), Len(s) >= 2, NEW e \in Activation,
         e.kind # "batch", e.kind = "gosub" => e.offset >= Ended
  PROVE  /\ StackSane(Append(s, e)) /\ Len(Append(s, e)) >= 2
         /\ Batches(Append(s, e), Len(Append(s, e))) = Batches(s, Len(s))
<1>1. s \in Seq(Activation)
  BY DEF StackSane
<1>2. PICK t : t = Append(s, e)
  OBVIOUS
<1>3. /\ t \in Seq(Activation) /\ Len(s) \in Nat /\ Len(t) = Len(s) + 1
      /\ \A i \in 1..Len(s) : t[i] = s[i]
      /\ t[Len(s) + 1] = e
  BY <1>1, <1>2, Pushed
<1>4. PICK n : n = Len(s)
  OBVIOUS
<1>5. n \in Nat /\ n <= Len(s) /\ n <= Len(t) /\ n >= 2 /\ Len(t) >= 2
  BY <1>3, <1>4
<1>6. \A i \in (n + 1)..Len(t) : i = Len(s) + 1
  BY <1>3, <1>4
<1>7. \A i \in (n + 1)..Len(s) : FALSE
  BY <1>3, <1>4
<1>8. \A i \in (n + 1)..Len(t) : /\ t[i].kind # "batch"
                                 /\ t[i].kind = "gosub" => t[i].offset >= Ended
  BY <1>3, <1>6
<1>9. StackSane(t) /\ Batches(t, Len(t)) = Batches(s, Len(s))
  BY <1>3, <1>4, <1>5, <1>7, <1>8, Replaced
<1> QED
  BY <1>2, <1>5, <1>9

\* A batch file is called from inside a command.
LEMMA NestSane ==
  ASSUME NEW s, StackSane(s), s # <<>>, NEW fl, Sane(fl),
         NEW e, e = [kind |-> "batch", save |-> fl]
  PROVE  /\ StackSane(Append(s, e)) /\ Len(Append(s, e)) >= 2
         /\ Batches(Append(s, e), Len(Append(s, e))) = Batches(s, Len(s)) + 1
<1>1. s \in Seq(Activation)
  BY DEF StackSane
<1>2. e \in Activation
  BY DEF Activation, Sane, WaitEndIff
<1>3. PICK t : t = Append(s, e)
  OBVIOUS
<1>4. /\ t \in Seq(Activation) /\ Len(s) \in Nat /\ Len(t) = Len(s) + 1
      /\ \A i \in 1..Len(s) : t[i] = s[i]
      /\ t[Len(s) + 1] = e
  BY <1>1, <1>2, <1>3, Pushed
<1>5. Len(s) >= 1
  BY <1>1, EmptySeq
<1>6. Batches(t, Len(s) + 1) = Batches(t, Len(s)) + 1
  <2>1. t[Len(s) + 1].kind = "batch" /\ Len(s) \in Nat
    BY <1>4
  <2> QED
    BY <2>1, BatchesCount, Zenon
<1>7. Batches(t, Len(s)) = Batches(s, Len(s))
  BY <1>4, BatchesSame
<1>8. \A k \in 1..Len(t) : k \in 1..Len(s) \/ k = Len(s) + 1
  BY <1>4
<1>9. \A k \in 1..Len(t) : /\ t[k].kind = "batch" => Sane(t[k].save)
                           /\ t[k].kind = "gosub" => t[k].offset >= Ended
  BY <1>4, <1>8 DEF StackSane
<1>10. t[1] = s[1] /\ (Len(s) >= 2 => t[2] = s[2]) /\ (Len(s) = 1 => t[2] = e)
  BY <1>4, <1>5
<1>11. s[1].kind = "command" /\ s[1].rest \in {<<Start>>, <<>>}
  BY <1>5 DEF StackSane
<1>12. Len(s) >= 2 => s[2].kind = "batch"
  BY DEF StackSane
<1>13. Len(s) = 1 \/ Len(s) >= 2
  <2>1. PICK n : n = Len(s)
    OBVIOUS
  <2>2. n \in Nat /\ n >= 1
    BY <1>4, <1>5, <2>1
  <2>3. n = 1 \/ n >= 2
    BY <2>2
  <2> QED
    BY <2>1, <2>3
<1>14. t[2].kind = "batch"
  BY <1>10, <1>12, <1>13
<1>15. StackSane(t)
  BY <1>4, <1>9, <1>10, <1>11, <1>14 DEF StackSane
<1> QED
  BY <1>3, <1>4, <1>5, <1>6, <1>7, <1>15

\* A batch file is done.
LEMMA UnnestSane ==
  ASSUME BatInv, stack # <<>>, Top.kind = "batch"
  PROVE  /\ StackSane(Below) /\ Sane(Top.save)
         /\ Batches(stack, Len(stack)) = Batches(Below, Len(Below)) + 1
<1>1. /\ stack \in Seq(Activation) /\ Len(stack) \in Nat \ {0}
      /\ Top = stack[Len(stack)] /\ Len(stack) >= 2
      /\ Below \in Seq(Activation) /\ Len(Below) = Len(stack) - 1
      /\ \A i \in 1..(Len(stack) - 1) : Below[i] = stack[i]
  BY Running
<1>2. PICK n, t : n = Len(stack) - 1 /\ t = Below
  OBVIOUS
<1>3. n \in Nat /\ n >= 1 /\ n + 1 = Len(stack) /\ Len(t) = n
  BY <1>1, <1>2
<1>4. t \in Seq(Activation) /\ \A i \in 1..n : t[i] = stack[i]
  BY <1>1, <1>2
<1>5. Batches(stack, n + 1) = Batches(stack, n) + 1
  BY <1>1, <1>3, BatchesCount, ZenonT(60)
<1>6. Batches(t, n) = Batches(stack, n)
  BY <1>3, <1>4, BatchesSame
<1>7. /\ \A k \in 1..n : k \in 1..Len(stack)
      /\ Len(stack) \in 1..Len(stack) /\ 1 \in 1..n
      /\ n >= 2 => 2 \in 1..n
  BY <1>1, <1>3
<1>8. /\ \A k \in 1..n : /\ t[k].kind = "batch" => Sane(t[k].save)
                         /\ t[k].kind = "gosub" => t[k].offset >= Ended
      /\ Sane(Top.save)
  BY <1>1, <1>4, <1>7 DEF BatInv, StackSane
<1>9. t[1] = stack[1] /\ (n >= 2 => t[2] = stack[2])
  BY <1>4, <1>7
<1>10. /\ stack[1].kind = "command" /\ stack[1].rest \in {<<Start>>, <<>>}
       /\ stack[2].kind = "batch"
  BY <1>1 DEF BatInv, StackSane
<1>11. StackSane(t)
  BY <1>3, <1>4, <1>8, <1>9, <1>10 DEF StackSane
<1> QED
  BY <1>2, <1>3, <1>5, <1>6, <1>8, <1>11

-----------------------------------------------------------------------------
(* Flags. *)

\* iff_parsing keeps the counters in step, and lets a command pass only where
\* nothing is waited for.
LEMMA Parsed ==
  ASSUME Sane(flags), NEW op, NEW r, r = IffParsing(op)
  PROVE  /\ Sane(r.flags)
         /\ ~r.skip => r.flags.else = 0 /\ r.flags.endiff = 0
         /\ flags.iff = 0 => r.flags = flags /\ ~r.skip
<1>1. PICK a, b, c : a = flags.iff /\ b = flags.endiff /\ c = flags.else
  OBVIOUS
<1>2. /\ a \in Nat /\ b \in Nat /\ c \in {0, 1, 128}
      /\ a = 0 => b = 0 /\ c = 0
      /\ b > 0 => c # 0
  BY <1>1 DEF Sane, WaitEndIff
<1>3. CASE a = 0
  <2>1. r = [flags |-> flags, skip |-> FALSE]
    BY <1>1, <1>3 DEF IffParsing
  <2> QED
    BY <1>1, <1>2, <1>3, <2>1
<1>4. CASE a # 0
  <2>1. flags \in [iff : Int, endiff : Int, else : Int]
    BY DEF Sane, WaitEndIff
  <2>2. CASE op = "endiff" /\ b = 0
    <3>1. PICK g : g = [iff |-> flags.iff - 1, endiff |-> 0, else |-> 0]
      OBVIOUS
    <3>2. r.flags = g /\ r.skip = TRUE
      BY <1>1, <1>4, <2>2, <3>1 DEF IffParsing
    <3>3. /\ g \in [iff : Int, endiff : Int, else : Int]
          /\ g.iff = a - 1 /\ g.endiff = b /\ g.else = 0
      BY <1>1, <1>2, <2>1, <2>2, <3>1
    <3> QED
      BY <1>1, <1>2, <1>4, <2>2, <3>2, <3>3 DEF Sane
  <2>3. CASE op = "endiff" /\ b # 0
    <3>1. PICK g : g = [flags EXCEPT !.endiff = @ - 1]
      OBVIOUS
    <3>2. r = [flags |-> g, skip |-> TRUE]
      BY <1>1, <1>4, <2>3, <3>1 DEF IffParsing
    <3>3. /\ g \in [iff : Int, endiff : Int, else : Int]
          /\ g.iff = a /\ g.endiff = b - 1 /\ g.else = c
      BY <1>1, <1>2, <2>1, <3>1
    <3> QED
      BY <1>1, <1>2, <1>4, <2>3, <3>2, <3>3 DEF Sane, WaitEndIff
  <2>4. CASE op = "iff" /\ c # 0
    <3>1. PICK g : g = [flags EXCEPT !.endiff = @ + 1]
      OBVIOUS
    <3>2. /\ g \in [iff : Int, endiff : Int, else : Int]
          /\ g.iff = a /\ g.endiff = b + 1 /\ g.else = c
      BY <1>1, <1>2, <2>1, <3>1
    <3>3. r.flags = g /\ r.skip = TRUE
      BY <1>1, <1>2, <1>4, <2>4, <3>1, <3>2 DEF IffParsing
    <3> QED
      BY <1>1, <1>2, <1>4, <2>4, <3>2, <3>3 DEF Sane, WaitEndIff
  <2>5. CASE op = "else" /\ b = 0 /\ c = 1
    <3>1. PICK g : g = [iff |-> IF op = "elseiff" THEN flags.iff - 1 ELSE flags.iff,
                       endiff |-> 0, else |-> 0]
      OBVIOUS
    <3>2. /\ g \in [iff : Int, endiff : Int, else : Int]
          /\ g.iff = a /\ g.endiff = b /\ g.else = 0
      BY <1>1, <1>2, <2>1, <2>5, <3>1
    <3>3. r.flags = g /\ r.skip = FALSE
      BY <1>1, <1>2, <1>4, <2>5, <3>1, <3>2 DEF IffParsing
    <3> QED
      BY <1>1, <1>2, <1>4, <2>5, <3>2, <3>3 DEF Sane
  <2>6. CASE op = "elseiff" /\ b = 0 /\ c = 1
    <3>1. PICK g : g = [iff |-> IF op = "elseiff" THEN flags.iff - 1 ELSE flags.iff,
                       endiff |-> 0, else |-> 0]
      OBVIOUS
    <3>2. /\ g \in [iff : Int, endiff : Int, else : Int]
          /\ g.iff = a - 1 /\ g.endiff = b /\ g.else = 0
      BY <1>1, <1>2, <2>1, <2>6, <3>1
    <3>3. r.flags = g /\ r.skip = FALSE
      BY <1>1, <1>2, <1>4, <2>6, <3>1, <3>2 DEF IffParsing
    <3> QED
      BY <1>1, <1>2, <1>4, <2>6, <3>2, <3>3 DEF Sane
  <2>7. CASE op \in {"else", "elseiff"} /\ b = 0 /\ c # 1
    <3>1. PICK g : g = [flags EXCEPT !.else = WaitEndIff]
      OBVIOUS
    <3>2. /\ g \in [iff : Int, endiff : Int, else : Int]
          /\ g.iff = a /\ g.endiff = b /\ g.else = 128
      BY <1>1, <1>2, <2>1, <3>1 DEF WaitEndIff
    <3>3. r.flags = g
      BY <1>1, <1>2, <1>4, <2>7, <3>1 DEF IffParsing, WaitEndIff
    <3>4. r.skip
      <4>1. r.skip = (op = "endiff" \/ r.flags.else # 0 \/ r.flags.endiff # 0)
        BY <1>1, <1>4, Zenon DEF IffParsing
      <4>2. 128 # 0 /\ r.flags.else = 128
        BY <3>2, <3>3
      <4> QED
        BY <4>1, <4>2, Zenon
    <3> QED
      BY <1>1, <1>2, <1>4, <2>7, <3>2, <3>3, <3>4 DEF Sane, WaitEndIff
  <2>8. CASE /\ op # "endiff" /\ ~(op = "iff" /\ c # 0)
             /\ ~(op \in {"else", "elseiff"} /\ b = 0)
    <3>1. r.flags = flags /\ r.skip = (c # 0 \/ b # 0)
      BY <1>1, <1>4, <2>8 DEF IffParsing
    <3> QED
      BY <1>1, <1>4, <2>8, <3>1
  <2> QED
    BY <2>2, <2>3, <2>4, <2>5, <2>6, <2>7, <2>8
<1> QED
  BY <1>3, <1>4

-----------------------------------------------------------------------------
(* Files. *)

NatLess == {ss \in Nat \X Nat : ss[1] < ss[2]}

\* A set of numbers has a least one.
LEMMA LeastNat ==
  ASSUME NEW S, S \subseteq Nat, S # {}
  PROVE  \E m \in S : \A n \in S : m <= n
<1>1. IsWellFoundedOn(NatLess, Nat)
  BY NatLessThanWellFounded DEF OpToRel, NatLess
<1>2. PICK m \in S : \A n \in S : <<n, m>> \notin NatLess
  BY <1>1, WFMin, Zenon
<1>3. \A n \in S : ~(n < m)
  BY <1>2 DEF NatLess
<1> QED
  BY <1>3

\* t is s with e after its first w elements.
PutAt(t, s, w, e) ==
    /\ Len(t) = Len(s) + 1
    /\ \A i \in 1..w : t[i] = s[i]
    /\ t[w + 1] = e
    /\ \A i \in (w + 1)..Len(s) : t[i + 1] = s[i]

\* A unit is put in front of another one, or of the end of the file.
LEMMA InsertedAt ==
  ASSUME NEW S, NEW s \in Seq(S), NEW e \in S, NEW w \in 0..Len(s)
  PROVE  /\ InsertAt(s, w + 1, e) \in Seq(S)
         /\ PutAt(InsertAt(s, w + 1, e), s, w, e)
<1>1. PICK n : n = Len(s)
  OBVIOUS
<1>2. n \in Nat /\ w \in 0..n
  BY <1>1, LenProperties
<1>3. PICK a : a = SubSeq(s, 1, w)
  OBVIOUS
<1>4. a \in Seq(S) /\ Len(a) = w /\ \A i \in 1..w : a[i] = s[i]
  BY <1>3, Prefix
<1>5. PICK b : b = SubSeq(s, w + 1, n)
  OBVIOUS
<1>6. /\ b \in Seq(S) /\ Len(b) = n - w
      /\ \A i \in 1..(n - w) : b[i] = s[w + i]
  <2>1. w + 1 \in Int /\ n \in Int
    BY <1>2
  <2>2. \A i \in (w + 1)..n : i \in 1..n
    BY <1>2
  <2>3. \A i \in (w + 1)..n : s[i] \in S
    BY <1>1, <2>2, ElementOfSeq
  <2>4. /\ SubSeq(s, w + 1, n) \in Seq(S)
        /\ Len(SubSeq(s, w + 1, n)) =
             IF w + 1 <= n THEN n - (w + 1) + 1 ELSE 0
        /\ \A i \in 1..(n - (w + 1) + 1) :
              SubSeq(s, w + 1, n)[i] = s[(w + 1) + i - 1]
    BY <2>1, <2>3, SubSeqProperties
  <2>5. /\ (IF w + 1 <= n THEN n - (w + 1) + 1 ELSE 0) = n - w
        /\ n - (w + 1) + 1 = n - w
        /\ \A i \in 1..(n - w) : (w + 1) + i - 1 = w + i
    BY <1>2
  <2> QED
    BY <1>5, <2>4, <2>5, Zenon
<1>7. PICK m : m = <<e>>
  OBVIOUS
<1>8. m \in Seq(S) /\ Len(m) = 1 /\ m[1] = e
  BY <1>7
<1>9. PICK c : c = a \o m
  OBVIOUS
<1>10. /\ c \in Seq(S) /\ Len(c) = w + 1
       /\ \A i \in 1..w : c[i] = s[i]
       /\ c[w + 1] = e
  <2>1. /\ a \o m \in Seq(S) /\ Len(a \o m) = Len(a) + Len(m)
        /\ \A i \in 1..(Len(a) + Len(m)) :
              (a \o m)[i] = IF i <= Len(a) THEN a[i] ELSE m[i - Len(a)]
    BY <1>4, <1>8, ConcatProperties
  <2>2. /\ c \in Seq(S) /\ Len(c) = w + 1
        /\ \A i \in 1..(w + 1) : c[i] = IF i <= w THEN a[i] ELSE m[i - w]
    BY <1>4, <1>8, <1>9, <2>1, Zenon
  <2>3. /\ \A i \in 1..w : i \in 1..(w + 1) /\ i <= w
        /\ w + 1 \in 1..(w + 1) /\ ~(w + 1 <= w) /\ (w + 1) - w = 1
    BY <1>2
  <2> QED
    BY <1>4, <1>8, <2>2, <2>3, Zenon
<1>11. PICK d : d = c \o b
  OBVIOUS
<1>12. /\ d \in Seq(S) /\ Len(d) = (w + 1) + (n - w)
       /\ \A i \in 1..((w + 1) + (n - w)) :
             d[i] = IF i <= w + 1 THEN c[i] ELSE b[i - (w + 1)]
  <2>1. /\ c \o b \in Seq(S) /\ Len(c \o b) = Len(c) + Len(b)
        /\ \A i \in 1..(Len(c) + Len(b)) :
              (c \o b)[i] = IF i <= Len(c) THEN c[i] ELSE b[i - Len(c)]
    BY <1>6, <1>10, ConcatProperties
  <2> QED
    BY <1>6, <1>10, <1>11, <2>1, Zenon
<1>13. /\ (w + 1) + (n - w) = n + 1
       /\ \A i \in 1..w : i \in 1..(n + 1) /\ i <= w + 1
       /\ w + 1 \in 1..(n + 1) /\ w + 1 <= w + 1
       /\ \A i \in (w + 1)..n : /\ i + 1 \in 1..(n + 1) /\ ~(i + 1 <= w + 1)
                                /\ (i + 1) - (w + 1) \in 1..(n - w)
                                /\ w + ((i + 1) - (w + 1)) = i
  BY <1>2
<1>14. /\ d \in Seq(S) /\ Len(d) = n + 1
       /\ \A i \in 1..w : d[i] = s[i]
       /\ d[w + 1] = e
       /\ \A i \in (w + 1)..n : d[i + 1] = s[i]
  <2>1. d \in Seq(S) /\ Len(d) = n + 1
    BY <1>12, <1>13, Zenon
  <2>2. \A i \in 1..(n + 1) : d[i] = IF i <= w + 1 THEN c[i] ELSE b[i - (w + 1)]
    BY <1>12, <1>13, Zenon
  <2>3. ASSUME NEW i \in 1..w
        PROVE  d[i] = s[i]
    <3>1. d[i] = c[i]
      BY <1>13, <2>2, Zenon
    <3> QED
      BY <1>10, <3>1, Zenon
  <2>4. d[w + 1] = e
    BY <1>10, <1>13, <2>2, Zenon
  <2>5. ASSUME NEW i \in (w + 1)..n
        PROVE  d[i + 1] = s[i]
    <3>1. d[i + 1] = b[(i + 1) - (w + 1)]
      BY <1>13, <2>2, Zenon
    <3>2. b[(i + 1) - (w + 1)] = s[w + ((i + 1) - (w + 1))]
      BY <1>6, <1>13, Zenon
    <3> QED
      BY <1>13, <3>1, <3>2, Zenon
  <2> QED
    BY <2>1, <2>3, <2>4, <2>5
<1>15. InsertAt(s, w + 1, e) = d
  <2>1. (w + 1) - 1 = w
    BY <1>2
  <2>2. InsertAt(s, w + 1, e) =
          SubSeq(s, 1, (w + 1) - 1) \o <<e>> \o SubSeq(s, w + 1, Len(s))
    BY DEF InsertAt
  <2>3. SubSeq(s, 1, (w + 1) - 1) = a /\ SubSeq(s, w + 1, Len(s)) = b
    BY <1>1, <1>3, <1>5, <2>1
  <2> QED
    BY <1>7, <1>9, <1>11, <2>2, <2>3
<1> QED
  BY <1>1, <1>14, <1>15 DEF PutAt

\* Lines are counted in numbers.
LEMMA LinesType ==
  ASSUME NEW f, NEW offset \in Nat
  PROVE  LineAt(f, offset) \in Nat
<1>1. IsFiniteSet(1..offset)
  BY FS_Interval
<1> QED
  BY <1>1, FS_Subset, FS_CardinalityType DEF LineAt

\* getline moves on, and not beyond the end.
LEMMA LineRead ==
  ASSUME text \in [Files -> Seq(Unit)], NEW f \in Files, NEW offset \in Nat,
         offset < Len(text[f])
  PROVE  /\ NextLine(f, offset) \in (offset + 1)..Len(text[f])
         /\ \A k \in (offset + 1)..NextLine(f, offset) :
               k = NextLine(f, offset) \/ text[f][k].ins
         /\ text[f][NextLine(f, offset)].ins => NextLine(f, offset) = Len(text[f])
<1>1. PICK n : n = Len(text[f])
  OBVIOUS
<1>2. n \in Nat /\ offset < n
  <2>1. text[f] \in Seq(Unit)
    OBVIOUS
  <2> QED
    BY <1>1, <2>1, LenProperties
<1>3. PICK ends : ends = {k \in (offset + 1)..Len(text[f]) : ~text[f][k].ins}
  OBVIOUS
<1>4. NextLine(f, offset) =
        IF ends = {} THEN n ELSE CHOOSE k \in ends : \A j \in ends : k <= j
  BY <1>1, <1>3 DEF NextLine
<1>5. CASE ends = {}
  BY <1>1, <1>2, <1>3, <1>4, <1>5
<1>6. CASE ends # {}
  <2>1. ends \subseteq Nat
    BY <1>1, <1>2, <1>3
  <2>2. \E k \in ends : \A j \in ends : k <= j
    BY <1>6, <2>1, LeastNat, Zenon
  <2>3. /\ NextLine(f, offset) \in ends
        /\ \A j \in ends : NextLine(f, offset) <= j
    BY <1>4, <1>6, <2>2, Zenon
  <2>4. PICK m : m = NextLine(f, offset)
    OBVIOUS
  <2>5. m \in (offset + 1)..n /\ ~text[f][m].ins /\ m \in Nat
    BY <1>1, <1>2, <1>3, <2>3, <2>4
  <2>6. \A k \in (offset + 1)..m : k = m \/ text[f][k].ins
    <3> SUFFICES ASSUME NEW k \in (offset + 1)..m, ~text[f][k].ins
                 PROVE  k = m
      OBVIOUS
    <3>1. k \in (offset + 1)..Len(text[f])
      BY <1>1, <1>2, <2>5
    <3>2. k \in ends
      BY <1>3, <3>1, Zenon
    <3>3. m <= k
      BY <2>3, <2>4, <3>2
    <3> QED
      BY <2>5, <3>3
  <2> QED
    BY <1>1, <2>4, <2>5, <2>6
<1> QED
  BY <1>5, <1>6

\* goto_label finds a place in the file; a label is a line of its own.
LEMMA LabelFound ==
  ASSUME text \in [Files -> Seq(Unit)], NEW fr \in Frame, NEW l
  PROVE  \E g \in Frame :
            /\ g = GotoLabel(fr, l) /\ g.name = fr.name
            /\ g.read_offset \in 0..Len(text[fr.name])
            /\ g.line_number = LineAt(fr.name, g.read_offset)
            /\ g.gsoffset = fr.gsoffset
            /\ g.start_line = fr.start_line /\ g.end_line = fr.end_line
            /\ IF Labels(fr.name, l) # {}
                 THEN /\ g.read_offset \in Labels(fr.name, l)
                      /\ g.read_offset >= 1
                      /\ g.write_offset = g.read_offset - 1
                 ELSE /\ g.read_offset = Len(text[fr.name])
                      /\ g.write_offset = g.read_offset
<1>1. PICK f, n, found : /\ f = fr.name /\ n = Len(text[f])
                         /\ found = Labels(f, l)
  OBVIOUS
<1>2. f \in Files
  BY <1>1 DEF Frame
<1>3. n \in Nat
  <2>1. text[f] \in Seq(Unit)
    BY <1>2
  <2> QED
    BY <1>1, <2>1, LenProperties
<1>4. found \subseteq 1..n
  BY <1>1 DEF Labels
<1>5. PICK at : at = IF found # {} THEN CHOOSE k \in found : \A j \in found : k <= j
                                   ELSE n
  OBVIOUS
<1>6. at \in 0..n /\ (found # {} => at \in found /\ at >= 1) /\ (found = {} => at = n)
  <2>1. CASE found = {}
    BY <1>3, <1>5, <2>1
  <2>2. CASE found # {}
    <3>1. found \subseteq Nat
      BY <1>4
    <3>2. \E k \in found : \A j \in found : k <= j
      BY <2>2, <3>1, LeastNat, Zenon
    <3>3. at \in found
      BY <1>5, <2>2, <3>2, Zenon
    <3>4. at \in 1..n
      BY <1>4, <3>3
    <3> QED
      BY <1>3, <2>2, <3>3, <3>4
  <2> QED
    BY <2>1, <2>2
<1>7. PICK w : w = IF found # {} THEN at - 1 ELSE at
  OBVIOUS
<1>8. w \in Nat /\ at \in Int
  BY <1>3, <1>6, <1>7
<1>9. LineAt(f, at) \in Int
  BY <1>6, LinesType
<1>10. PICK g : g = [fr EXCEPT !.read_offset = at, !.write_offset = w,
                               !.line_number = LineAt(f, at)]
  OBVIOUS
<1>11. /\ g \in Frame /\ g.name = fr.name /\ g.read_offset = at
       /\ g.write_offset = w /\ g.line_number = LineAt(f, at)
       /\ g.gsoffset = fr.gsoffset
       /\ g.start_line = fr.start_line /\ g.end_line = fr.end_line
  BY <1>8, <1>9, <1>10 DEF Frame
<1>12. g = GotoLabel(fr, l)
  BY <1>1, <1>5, <1>7, <1>10 DEF GotoLabel
<1> QED
  BY <1>1, <1>6, <1>7, <1>11, <1>12

-----------------------------------------------------------------------------
(* What the actions have in common. *)

\* The rest of a line is carried out later.
LEMMA RestSane ==
  ASSUME BatInv, AtCommand
  PROVE  /\ StackSane(Rest) /\ Len(Rest) = Len(stack) /\ Rest # <<>>
         /\ Batches(Rest, Len(Rest)) = Batches(stack, Len(stack))
<1>1. /\ stack # <<>> /\ Top.kind = "command" /\ Rest # <<>>
      /\ Tail(Top.rest) \in Seq(Cmds)
      /\ Last(Rest) = [kind |-> "command", rest |-> Tail(Top.rest)]
      /\ Len(stack) = 1 => Top.rest = <<Start>>
  BY Carrying
<1>2. PICK e : e = [Top EXCEPT !.rest = Tail(@)]
  OBVIOUS
<1>3. Rest = Append(Below, e)
  BY <1>2 DEF Rest
<1>4. stack \in Seq(Activation) /\ Below = Front(stack) /\ Top \in Activation
      /\ (Len(stack) = 1 \/ Len(stack) >= 3)
  BY <1>1, Running DEF Below
<1>5. Top \in [kind : {"command"}, rest : Seq(Cmds)]
  BY <1>1, <1>4 DEF Activation
<1>6. e = [kind |-> "command", rest |-> Tail(Top.rest)]
  BY <1>2, <1>5
<1>7. e \in Activation
  BY <1>1, <1>6 DEF Activation
<1>8. Len(stack) = 1 => e.rest = <<>>
  <2>1. Tail(<<Start>>) = <<>>
    OBVIOUS
  <2> QED
    BY <1>1, <1>6, <2>1
<1>9. e.kind = "command"
  BY <1>6
<1>10. /\ Top.kind # "batch" /\ e.kind \notin {"batch", "gosub"}
       /\ \/ Len(stack) >= 3
          \/ Len(stack) = 1 /\ e.kind = "command" /\ e.rest \in {<<Start>>, <<>>}
  BY <1>1, <1>4, <1>8, <1>9
<1>11. /\ StackSane(Append(Below, e)) /\ Len(Append(Below, e)) = Len(stack)
       /\ Batches(Append(Below, e), Len(Append(Below, e))) =
            Batches(stack, Len(stack))
  BY <1>1, <1>7, <1>10, RetopSane
<1> QED
  BY <1>1, <1>3, <1>11, Zenon

\* The innermost frame changes.
LEMMA FrameWith ==
  ASSUME FramesSane(frame, text), frame # <<>>, NEW fr, FrameSane(fr, text)
  PROVE  /\ FramesSane(WithFrame(fr), text)
         /\ Len(WithFrame(fr)) = Len(frame)
<1>1. frame \in Seq(Frame) /\ fr \in Frame
  BY DEF FramesSane, FrameSane
<1>2. PICK t : t = WithFrame(fr)
  OBVIOUS
<1>3. PICK n : n = Len(frame)
  OBVIOUS
<1>4. /\ t \in Seq(Frame) /\ n \in Nat \ {0} /\ Len(t) = n
      /\ \A i \in 1..(n - 1) : t[i] = frame[i]
      /\ t[n] = fr
  <2>1. /\ Append(Front(frame), fr) \in Seq(Frame)
        /\ Len(frame) \in Nat \ {0} /\ Len(Append(Front(frame), fr)) = Len(frame)
        /\ \A i \in 1..(Len(frame) - 1) : Append(Front(frame), fr)[i] = frame[i]
        /\ Append(Front(frame), fr)[Len(frame)] = fr
    BY <1>1, Retopped
  <2> QED
    BY <1>2, <1>3, <2>1, Zenon DEF WithFrame
<1>5. \A i \in 1..n : i = n \/ i \in 1..(n - 1)
  BY <1>4
<1>6. \A i \in 1..n : FrameSane(frame[i], text)
  BY <1>3 DEF FramesSane
<1>7. \A i \in 1..n : FrameSane(t[i], text)
  BY <1>4, <1>5, <1>6, Zenon
<1>8. n <= MaxBatch
  BY <1>3 DEF FramesSane
<1> QED
  BY <1>2, <1>3, <1>4, <1>7, <1>8 DEF FramesSane

\* All frames are ended.
LEMMA FramesEnded ==
  ASSUME FramesSane(frame, text), NEW frames,
         frames = [i \in DOMAIN frame |-> [frame[i] EXCEPT !.read_offset = Ended]]
  PROVE  FramesSane(frames, text) /\ Len(frames) = Len(frame)
<1>1. frame \in Seq(Frame) /\ \A i \in 1..Len(frame) : FrameSane(frame[i], text)
  BY DEF FramesSane
<1>2. Len(frame) \in Nat /\ DOMAIN frame = 1..Len(frame)
  BY <1>1, LenProperties
<1>3. PICK n : n = Len(frame)
  OBVIOUS
<1>4. frames = [i \in 1..n |-> [frame[i] EXCEPT !.read_offset = Ended]]
  BY <1>2, <1>3
<1>5. \A i \in 1..n : FrameSane([frame[i] EXCEPT !.read_offset = Ended], text)
  <2> SUFFICES ASSUME NEW i \in 1..n
               PROVE  FrameSane([frame[i] EXCEPT !.read_offset = Ended], text)
    OBVIOUS
  <2>1. PICK fr : fr = frame[i]
    OBVIOUS
  <2>2. FrameSane(fr, text)
    BY <1>1, <1>3, <2>1
  <2>3. FrameSane([fr EXCEPT !.read_offset = Ended], text)
    BY <2>2 DEF FrameSane, Frame, Ended
  <2> QED
    BY <2>1, <2>3
<1>6. \A i \in 1..n : [frame[i] EXCEPT !.read_offset = Ended] \in Frame
  BY <1>5 DEF FrameSane
<1>7. frames \in Seq(Frame) /\ Len(frames) = n
  <2>1. n \in Nat /\ \A i \in 1..n : frames[i] \in Frame
    BY <1>2, <1>3, <1>4, <1>6
  <2>2. frames \in [1..n -> Frame] /\ DOMAIN frames = 1..n
    BY <1>4, <2>1
  <2>3. frames \in Seq(Frame)
    BY <2>1, <2>2, SeqDef
  <2>4. PICK m : m = Len(frames)
    OBVIOUS
  <2>5. m \in Nat /\ 1..m = 1..n
    BY <2>2, <2>3, <2>4, LenProperties
  <2>6. m = n
    BY <2>1, <2>5
  <2> QED
    BY <2>3, <2>4, <2>6
<1>8. \A i \in 1..n : FrameSane(frames[i], text)
  BY <1>4, <1>5, Zenon
<1> QED
  BY <1>3, <1>7, <1>8 DEF FramesSane

\* A frame keeps what it is when its line is counted.
LEMMA LineCounted ==
  ASSUME NEW fr \in Frame
  PROVE  \E g \in Frame :
            /\ g = CountLine(fr)
            /\ g.name = fr.name /\ g.read_offset = fr.read_offset
            /\ g.write_offset = fr.write_offset
            /\ g.line_number = fr.line_number /\ g.gsoffset = fr.gsoffset
            /\ IF fr.start_line = NoLine \/ Outside(fr)
                 THEN g.start_line = ThisLine(fr) /\ g.end_line = ThisLine(fr)
                 ELSE /\ g.start_line = fr.start_line
                      /\ g.end_line = IF ThisLine(fr) = fr.end_line + 1
                                        THEN ThisLine(fr) ELSE fr.end_line
<1>1. ThisLine(fr) \in Int
  BY DEF ThisLine, Frame
<1>2. CASE fr.start_line = NoLine \/ Outside(fr)
  <2>1. PICK g : g = [fr EXCEPT !.start_line = ThisLine(fr), !.end_line = ThisLine(fr)]
    OBVIOUS
  <2>2. /\ g \in Frame
        /\ g.name = fr.name /\ g.read_offset = fr.read_offset
        /\ g.write_offset = fr.write_offset
        /\ g.line_number = fr.line_number /\ g.gsoffset = fr.gsoffset
        /\ g.start_line = ThisLine(fr) /\ g.end_line = ThisLine(fr)
    BY <1>1, <2>1 DEF Frame
  <2>3. g = CountLine(fr)
    BY <1>2, <2>1, Zenon DEF CountLine
  <2> QED
    BY <1>2, <2>2, <2>3
<1>3. CASE ~(fr.start_line = NoLine \/ Outside(fr)) /\ ThisLine(fr) = fr.end_line + 1
  <2>1. PICK g : g = [fr EXCEPT !.end_line = ThisLine(fr)]
    OBVIOUS
  <2>2. /\ g \in Frame
        /\ g.name = fr.name /\ g.read_offset = fr.read_offset
        /\ g.write_offset = fr.write_offset
        /\ g.line_number = fr.line_number /\ g.gsoffset = fr.gsoffset
        /\ g.start_line = fr.start_line /\ g.end_line = ThisLine(fr)
    BY <1>1, <2>1 DEF Frame
  <2>3. g = CountLine(fr)
    BY <1>3, <2>1, Zenon DEF CountLine
  <2> QED
    BY <1>3, <2>2, <2>3
<1>4. CASE ~(fr.start_line = NoLine \/ Outside(fr)) /\ ThisLine(fr) # fr.end_line + 1
  <2>1. fr = CountLine(fr)
    BY <1>4, Zenon DEF CountLine
  <2> QED
    BY <1>4, <2>1
<1> QED
  BY <1>2, <1>3, <1>4

\* command is entered, on a line of the innermost batch file.
LEMMA Entered ==
  ASSUME BatInv, frame # <<>>, NEW fr, FrameSane(fr, text),
         NEW below, StackSane(below), Len(below) >= 2,
         Batches(below, Len(below)) = Len(frame),
         NEW cmds \in Seq(Cmds), EnterCommand(fr, below, cmds)
  PROVE  /\ FramesSane(frame', text) /\ Len(frame') = Len(frame)
         /\ StackSane(stack') /\ Len(stack') >= 2
         /\ rv' \in Results
         /\ Len(frame') = Batches(stack', Len(stack'))
<1>1. fr \in Frame
  BY DEF FrameSane
<1>2. PICK g \in Frame : /\ g = CountLine(fr) /\ g.name = fr.name
                         /\ g.read_offset = fr.read_offset
                         /\ g.write_offset = fr.write_offset
  BY <1>1, LineCounted
<1>3. FrameSane(g, text)
  BY <1>2 DEF FrameSane
<1>4. FramesSane(WithFrame(g), text) /\ Len(WithFrame(g)) = Len(frame)
  BY <1>3, FrameWith DEF BatInv
<1>5. frame' = WithFrame(g)
  BY <1>2 DEF EnterCommand
<1>6. PICK e : e = [kind |-> "command", rest |-> cmds]
  OBVIOUS
<1>7. e \in Activation /\ e.kind = "command"
  BY <1>6 DEF Activation
<1>8. /\ StackSane(Append(below, e)) /\ Len(Append(below, e)) >= 2
      /\ Batches(Append(below, e), Len(Append(below, e))) = Batches(below, Len(below))
  BY <1>7, PushSane
<1>9. stack' = Append(below, e) /\ rv' = "run"
  BY <1>6 DEF EnterCommand
<1> QED
  BY <1>4, <1>5, <1>8, <1>9 DEF Results

\* The frame fr is b at another place in its file.
PlacedAt(fr, b, w, m, k) ==
    /\ fr \in Frame /\ fr.name = b.name /\ fr.write_offset = w
    /\ fr.read_offset = m /\ fr.line_number = k
    /\ fr.gsoffset = b.gsoffset
    /\ fr.start_line = b.start_line /\ fr.end_line = b.end_line

\* A frame for the next line, and one for the same line again.
PlaceSet(b, w, m, k) ==
    [b EXCEPT !.write_offset = w, !.read_offset = m, !.line_number = k]
PlaceBack(b, m, k) == [b EXCEPT !.read_offset = m, !.line_number = k]

\* They are what they say.
LEMMA Placed ==
  ASSUME NEW b \in Frame, NEW m \in Int, NEW w \in Nat, NEW k \in Int
  PROVE  /\ PlacedAt(PlaceSet(b, w, m, k), b, w, m, k)
         /\ PlacedAt(PlaceBack(b, m, k), b, b.write_offset, m, k)
BY DEF Frame, PlaceSet, PlaceBack, PlacedAt

\* A line is read.
LEMMA LineGot ==
  ASSUME BatInv, Len(stack) >= 2, bframe.read_offset # Ended, ~AtEnd
  PROVE  /\ bframe.name \in Files /\ bframe.read_offset \in Nat
         /\ bframe.read_offset < Len(text[bframe.name])
         /\ \E fr \in Frame :
              /\ fr = GetLine(bframe) /\ FrameSane(fr, text)
              /\ fr.name = bframe.name
              /\ fr.write_offset = bframe.read_offset
              /\ fr.read_offset = NextLine(bframe.name, bframe.read_offset)
              /\ fr.line_number = bframe.line_number + 1
              /\ fr.gsoffset = bframe.gsoffset
              /\ fr.start_line = bframe.start_line
              /\ fr.end_line = bframe.end_line
         /\ Commands(bframe.name, bframe.read_offset) \in Seq(Cmds)
<1>1. /\ bframe \in Frame /\ bframe.read_offset >= Ended
      /\ text \in [Files -> Seq(Unit)]
  BY Framed DEF FrameSane, BatInv
<1>2. PICK b, n : b = bframe /\ n = Len(text[b.name])
  OBVIOUS
<1>3. b.name \in Files /\ b.read_offset \in Int /\ b.line_number \in Int
  BY <1>1, <1>2 DEF Frame
<1>4. text[b.name] \in Seq(Unit)
  BY <1>1, <1>3
<1>5. n \in Nat
  BY <1>2, <1>4, LenProperties
<1>6. b.read_offset \in Nat /\ b.read_offset < n
  <2>1. b.read_offset # -1 /\ b.read_offset >= -1 /\ ~(b.read_offset >= n)
    BY <1>1, <1>2 DEF Ended, AtEnd
  <2> QED
    BY <1>3, <1>5, <2>1
<1>7. NextLine(b.name, b.read_offset) \in (b.read_offset + 1)..n
  BY <1>1, <1>2, <1>3, <1>6, LineRead
<1>8. PICK m, k : m = NextLine(b.name, b.read_offset) /\ k = b.line_number + 1
  OBVIOUS
<1>9. m \in Nat /\ k \in Int
  BY <1>3, <1>5, <1>6, <1>7, <1>8
<1>10. b \in Frame
  BY <1>1, <1>2
<1>15. PICK fr : fr = PlaceSet(b, b.read_offset, m, k)
  OBVIOUS
<1>11. /\ fr \in Frame /\ fr.name = b.name /\ fr.write_offset = b.read_offset
       /\ fr.read_offset = m /\ fr.line_number = b.line_number + 1
       /\ fr.gsoffset = b.gsoffset
       /\ fr.start_line = b.start_line /\ fr.end_line = b.end_line
  <2>1. b.read_offset \in Nat /\ m \in Int /\ k \in Int
    BY <1>6, <1>9
  <2>2. PlacedAt(PlaceSet(b, b.read_offset, m, k), b, b.read_offset, m, k)
    BY <1>10, <2>1, Placed, Zenon
  <2>3. PlacedAt(fr, b, b.read_offset, m, k)
    BY <1>15, <2>2
  <2> QED
    BY <1>8, <2>3 DEF PlacedAt
<1>12. fr = GetLine(bframe)
  BY <1>2, <1>8, <1>15 DEF GetLine, PlaceSet
<1>13. FrameSane(fr, text)
  <2>1. fr.write_offset <= Len(text[fr.name])
    BY <1>2, <1>5, <1>6, <1>11
  <2> QED
    BY <1>9, <1>11, <2>1 DEF FrameSane, Ended
<1>14. Commands(b.name, b.read_offset) \in Seq(Cmds)
  <2>1. b.read_offset + 1 \in 1..Len(text[b.name])
    BY <1>2, <1>5, <1>6
  <2>2. text[b.name][b.read_offset + 1] \in Unit
    BY <1>4, <2>1, ElementOfSeq
  <2> QED
    BY <2>2 DEF Unit, Commands
<1> QED
  BY <1>2, <1>3, <1>6, <1>8, <1>11, <1>12, <1>13, <1>14

\* The frames stay sane while texts grow.
LEMMA TextGrows ==
  ASSUME NEW frames, FramesSane(frames, text), NEW tx,
         text \in [Files -> Seq(Unit)], tx \in [Files -> Seq(Unit)],
         \A f \in Files : Len(text[f]) <= Len(tx[f])
  PROVE  FramesSane(frames, tx)
<1>1. ASSUME NEW i \in 1..Len(frames)
      PROVE  FrameSane(frames[i], tx)
  <2>1. PICK fr : fr = frames[i]
    OBVIOUS
  <2>2. FrameSane(fr, text)
    BY <2>1 DEF FramesSane
  <2>3. fr.name \in Files /\ fr.write_offset \in Nat
    BY <2>2 DEF FrameSane, Frame
  <2>4. PICK m, n : m = Len(text[fr.name]) /\ n = Len(tx[fr.name])
    OBVIOUS
  <2>5. text[fr.name] \in Seq(Unit) /\ tx[fr.name] \in Seq(Unit)
    BY <2>3
  <2>6. m \in Nat /\ n \in Nat /\ m <= n
    BY <2>3, <2>4, <2>5, LenProperties
  <2>7. fr.write_offset <= m
    BY <2>2, <2>4 DEF FrameSane
  <2>8. fr.write_offset <= n
    BY <2>3, <2>6, <2>7
  <2> QED
    BY <2>1, <2>2, <2>4, <2>8 DEF FrameSane
<1> QED
  BY <1>1 DEF FramesSane

\* A CALL is put in front of the line just read, which will be read again.
LEMMA CallInserted ==
  ASSUME BatInv, Len(stack) >= 2,
         text' = [text EXCEPT ![bframe.name] =
                             InsertAt(@, bframe.write_offset + 1, Inserted)],
         frame' = WithFrame([bframe EXCEPT !.read_offset = bframe.write_offset,
                                           !.line_number = @ - 1])
  PROVE  /\ text' \in [Files -> Seq(Unit)] /\ FramesSane(frame', text')
         /\ Len(frame') = Len(frame)
<1>1. /\ frame # <<>> /\ bframe \in Frame /\ FrameSane(bframe, text)
      /\ text \in [Files -> Seq(Unit)] /\ FramesSane(frame, text)
  BY Framed DEF BatInv
<1>2. PICK b, w : b = bframe /\ w = b.write_offset
  OBVIOUS
<1>3. b.name \in Files /\ w \in Nat /\ b.line_number \in Int
  BY <1>1, <1>2 DEF Frame
<1>4. text[b.name] \in Seq(Unit)
  BY <1>1, <1>3
<1>5. w \in 0..Len(text[b.name])
  <2>1. PICK n : n = Len(text[b.name])
    OBVIOUS
  <2>2. n \in Nat /\ w <= n
    BY <1>1, <1>2, <1>4, <2>1, LenProperties DEF FrameSane
  <2> QED
    BY <1>3, <2>1, <2>2
<1>6. Inserted \in Unit
  <2>1. InsCall \in Cmds
    BY BatchAssumption
  <2>2. <<InsCall>> \in Seq(Cmds)
    BY <2>1
  <2> QED
    BY <2>2 DEF Inserted, Unit
<1>7. PICK s : s = InsertAt(text[b.name], w + 1, Inserted)
  OBVIOUS
<1>8. s \in Seq(Unit) /\ Len(s) = Len(text[b.name]) + 1
  BY <1>4, <1>5, <1>6, <1>7, InsertedAt DEF PutAt
<1>9. text' = [text EXCEPT ![b.name] = s]
  BY <1>2, <1>7
<1>10. text' \in [Files -> Seq(Unit)]
  BY <1>1, <1>3, <1>8, <1>9
<1>11. ASSUME NEW f \in Files
       PROVE  Len(text[f]) <= Len(text'[f])
  <2>1. PICK m : m = Len(text[f])
    OBVIOUS
  <2>2. text[f] \in Seq(Unit)
    BY <1>1
  <2>3. m \in Nat
    BY <2>1, <2>2, LenProperties
  <2>4. CASE f = b.name
    <3>1. text'[f] = s
      BY <1>1, <1>3, <1>9, <2>4
    <3>2. Len(text'[f]) = m + 1
      BY <1>8, <2>1, <2>4, <3>1
    <3> QED
      BY <2>1, <2>3, <3>2
  <2>5. CASE f # b.name
    <3>1. text'[f] = text[f]
      BY <1>1, <1>9, <2>5
    <3>2. m <= m
      BY <2>3
    <3> QED
      BY <2>1, <3>1, <3>2
  <2> QED
    BY <2>4, <2>5
<1>12. PICK k : k = b.line_number - 1
  OBVIOUS
<1>16. /\ b \in Frame /\ w \in Int /\ k \in Int
       /\ b.write_offset <= Len(text[b.name])
  BY <1>1, <1>2, <1>3, <1>12 DEF FrameSane
<1>17. PICK fr : fr = PlaceBack(b, w, k)
  OBVIOUS
<1>18. /\ fr \in Frame /\ fr.name = b.name /\ fr.read_offset = w
       /\ fr.write_offset = b.write_offset
  <2>1. PlacedAt(PlaceBack(b, w, k), b, b.write_offset, w, k)
    BY <1>16, Placed, Zenon
  <2>2. PlacedAt(fr, b, b.write_offset, w, k)
    BY <1>17, <2>1
  <2> QED
    BY <2>2 DEF PlacedAt
<1>13. FrameSane(fr, text)
  BY <1>3, <1>16, <1>18 DEF FrameSane, Ended
<1>14. FramesSane(WithFrame(fr), text) /\ Len(WithFrame(fr)) = Len(frame)
  BY <1>1, <1>13, FrameWith
<1>15. frame' = WithFrame(fr)
  BY <1>2, <1>12, <1>17 DEF PlaceBack
<1> QED
  BY <1>1, <1>10, <1>11, <1>14, <1>15, TextGrows

-----------------------------------------------------------------------------
(* The invariant is kept: one lemma per kind of step. *)

\* What a step of batchcli needs.
LEMMA BatchcliBat ==
  ASSUME BatInv, Batchcli \/ CtrlC
  PROVE  BatInv'
<1>1. CASE ReadLine
  <2>1. stack # <<>> /\ Top.kind = "batchcli" /\ bframe.read_offset # Ended /\ ~AtEnd
    BY <1>1 DEF ReadLine, InBatchcli
  <2>2. Len(stack) >= 2
    BY <2>1, Running
  <2>3. PICK fr \in Frame : fr = GetLine(bframe) /\ FrameSane(fr, text)
    BY <2>1, <2>2, LineGot
  <2>4. PICK c : c = Commands(bframe.name, bframe.read_offset)
    OBVIOUS
  <2>5. c \in Seq(Cmds)
    BY <2>1, <2>2, <2>4, LineGot
  <2>6. EnterCommand(fr, stack, c)
    BY <1>1, <2>3, <2>4 DEF ReadLine
  <2>7. frame # <<>> /\ StackSane(stack) /\ Batches(stack, Len(stack)) = Len(frame)
    BY <2>2, Framed DEF BatInv
  <2>8. /\ FramesSane(frame', text)
        /\ StackSane(stack') /\ rv' \in Results
        /\ Len(frame') = Batches(stack', Len(stack'))
    BY <2>2, <2>3, <2>5, <2>6, <2>7, Entered
  <2> QED
    BY <1>1, <2>8 DEF ReadLine, BatInv
<1>2. CASE EndOfFile
  <2>1. stack # <<>> /\ Top.kind = "batchcli"
    BY <1>2 DEF EndOfFile, InBatchcli
  <2>2. StackSane(Below) /\ Batches(Below, Len(Below)) = Batches(stack, Len(stack))
    BY <2>1, PopSane
  <2> QED
    BY <1>2, <2>2 DEF EndOfFile, Return, BatInv, Results
<1>3. CASE CtrlC
  <2>1. stack # <<>> /\ Top.kind = "batchcli"
    BY <1>3 DEF CtrlC, InBatchcli
  <2>2. StackSane(Below) /\ Batches(Below, Len(Below)) = Batches(stack, Len(stack))
    BY <2>1, PopSane
  <2>3. PICK all \in BOOLEAN :
          frame' = IF all THEN [i \in DOMAIN frame |->
                                   [frame[i] EXCEPT !.read_offset = Ended]]
                          ELSE frame
    BY <1>3 DEF CtrlC
  <2>4. FramesSane(frame', text) /\ Len(frame') = Len(frame)
    BY <2>3, FramesEnded DEF BatInv
  <2> QED
    BY <1>3, <2>2, <2>4 DEF CtrlC, Return, BatInv, Results
<1>4. CASE LineDone
  <2>1. stack # <<>> /\ Top.kind = "batchcli"
    BY <1>4 DEF LineDone, InBatchcli
  <2>2. StackSane(Below) /\ Batches(Below, Len(Below)) = Batches(stack, Len(stack))
    BY <2>1, PopSane
  <2>3. /\ stack' = Below \/ stack' = stack
        /\ rv' \in {"ok", "run"}
        /\ UNCHANGED <<text, frame, flags, call_flag, for_flag>>
    BY <1>4 DEF LineDone, Return
  <2> QED
    BY <2>2, <2>3 DEF BatInv, Results
<1> QED
  BY <1>1, <1>2, <1>3, <1>4 DEF Batchcli

\* A command is carried out that calls nothing: its line goes on, or ends.
LEMMA FinishBat ==
  ASSUME BatInv, AtCommand, NEW result \in Results, Finish(result),
         text' \in [Files -> Seq(Unit)], FramesSane(frame', text'),
         Len(frame') = Len(frame), Sane(flags'),
         call_flag' \in BOOLEAN, for_flag' \in BOOLEAN
  PROVE  BatInv'
<1>1. StackSane(Rest) /\ Batches(Rest, Len(Rest)) = Batches(stack, Len(stack))
  BY RestSane
<1> QED
  BY <1>1 DEF Finish, BatInv

\* CommandDone, Label, Skip.
LEMMA CommandBat ==
  ASSUME BatInv, Command
  PROVE  BatInv'
<1>1. CASE CommandDone
  <2>1. stack # <<>> /\ Top.kind = "command"
    BY <1>1 DEF CommandDone, InCommand
  <2>2. StackSane(Below) /\ Batches(Below, Len(Below)) = Batches(stack, Len(stack))
    BY <2>1, PopSane
  <2>3. /\ stack' = Below \/ stack' = stack
        /\ rv' \in Results
        /\ UNCHANGED <<text, frame, flags, call_flag, for_flag>>
    BY <1>1 DEF CommandDone, Return, BatInv, Results
  <2> QED
    BY <2>2, <2>3 DEF BatInv, Results
<1>2. CASE Label
  <2>1. stack # <<>> /\ Top.kind = "command"
    BY <1>2 DEF Label, AtCommand, InCommand
  <2>2. StackSane(Below) /\ Batches(Below, Len(Below)) = Batches(stack, Len(stack))
    BY <2>1, PopSane
  <2> QED
    BY <1>2, <2>2 DEF Label, Return, BatInv, Results
<1>3. CASE Skip
  <2>1. AtCommand /\ Finish("run") /\ "run" \in Results
    BY <1>3 DEF Skip, Finish, Results
  <2>2. Sane(flags')
    <3>1. PICK r : r = IffParsing(Op[Cur])
      OBVIOUS
    <3>2. Sane(r.flags)
      BY <3>1, Parsed DEF BatInv
    <3> QED
      BY <1>3, <3>1, <3>2 DEF Skip
  <2>3. UNCHANGED <<text, frame, call_flag, for_flag>>
    BY <1>3 DEF Skip
  <2> QED
    BY <2>1, <2>2, <2>3, FinishBat DEF BatInv
<1> QED
  BY <1>1, <1>2, <1>3 DEF Command

\* A command that is carried out stands in a line of a batch file, but for the
\* one that names the first file; nothing is waited for then.
LEMMA CarriedOut ==
  ASSUME BatInv, NEW op, Carried(op)
  PROVE  /\ AtCommand /\ stack # <<>> /\ Op[Cur] = op
         /\ op # "batch" => Len(stack) >= 3 /\ frame # <<>>
         /\ IffParsing(op).flags.else = 0 /\ IffParsing(op).flags.endiff = 0
         /\ Sane(IffParsing(op).flags)
         /\ flags.iff = 0 => IffParsing(op).flags = flags
<1>1. AtCommand /\ Op[Cur] = op /\ ~IffParsing(op).skip
  BY DEF Carried
<1>2. PICK r : r = IffParsing(op)
  OBVIOUS
<1>3. /\ Sane(r.flags)
      /\ ~r.skip => r.flags.else = 0 /\ r.flags.endiff = 0
      /\ flags.iff = 0 => r.flags = flags
  BY <1>2, Parsed DEF BatInv
<1>4. stack # <<>> /\ (op # "batch" => Len(stack) >= 3)
  BY <1>1, Carrying
<1>5. Len(stack) >= 3 => Len(stack) >= 2
  <2>1. stack \in Seq(Activation)
    BY <1>4, Running
  <2>2. PICK n : n = Len(stack)
    OBVIOUS
  <2>3. n \in Nat
    BY <2>1, <2>2, LenProperties
  <2>4. n >= 3 => n >= 2
    BY <2>3
  <2> QED
    BY <2>2, <2>4
<1>6. op # "batch" => frame # <<>>
  BY <1>4, <1>5, Framed
<1> QED
  BY <1>1, <1>2, <1>3, <1>4, <1>6

\* Programs, and what INSERT_CMD and KILL_BATCH entries do.
LEMMA ExternalBat ==
  ASSUME BatInv, External
  PROVE  BatInv'
<1>1. CASE Program
  <2>1. AtCommand /\ Finish("ok") /\ "ok" \in Results
    BY <1>1 DEF Program, Carried, Results
  <2>2. UNCHANGED <<text, frame, flags, call_flag, for_flag>>
    BY <1>1 DEF Program
  <2> QED
    BY <2>1, <2>2, FinishBat DEF BatInv
<1>2. CASE KillBatch
  <2>1. AtCommand /\ Finish("return") /\ "return" \in Results
    BY <1>2 DEF KillBatch, Carried, Results
  <2>2. UNCHANGED <<text, frame, flags, call_flag, for_flag>>
    BY <1>2 DEF KillBatch
  <2> QED
    BY <2>1, <2>2, FinishBat DEF BatInv
<1>3. CASE InsertBatch
  <2>1. Carried("insert") /\ UNCHANGED <<flags, call_flag, for_flag>>
    BY <1>3 DEF InsertBatch
  <2>2. AtCommand /\ Len(stack) >= 3
    BY <2>1, CarriedOut
  <2>3. CASE bframe.name = InsFile
    <3>1. Finish("ok") /\ UNCHANGED <<text, frame>> /\ "ok" \in Results
      BY <1>3, <2>3 DEF InsertBatch, Results
    <3> QED
      BY <2>1, <2>2, <3>1, FinishBat DEF BatInv
  <2>4. CASE bframe.name # InsFile
    <3>1. /\ text' = [text EXCEPT ![bframe.name] =
                             InsertAt(@, bframe.write_offset + 1, Inserted)]
          /\ frame' = WithFrame([bframe EXCEPT !.read_offset = bframe.write_offset,
                                               !.line_number = @ - 1])
          /\ Finish("abort")
      BY <1>3, <2>4 DEF InsertBatch
    <3>2. stack \in Seq(Activation)
      BY DEF BatInv, StackSane
    <3>3. Len(stack) >= 2
      BY <2>2, <3>2, LenProperties
    <3>4. /\ text' \in [Files -> Seq(Unit)] /\ FramesSane(frame', text')
          /\ Len(frame') = Len(frame)
      BY <3>1, <3>3, CallInserted
    <3>5. "abort" \in Results
      BY DEF Results
    <3> QED
      BY <2>1, <2>2, <3>1, <3>4, <3>5, FinishBat DEF BatInv
  <2> QED
    BY <2>3, <2>4
<1> QED
  BY <1>1, <1>2, <1>3 DEF External

\* A block more.
LEMMA IffSane ==
  ASSUME NEW fl, Sane(fl), fl.else = 0, fl.endiff = 0,
         NEW i \in Nat, i # 0, NEW e \in {0, 1}
  PROVE  Sane([fl EXCEPT !.iff = i, !.else = e])
<1>1. fl \in [iff : Nat, endiff : Nat, else : {0, 1, WaitEndIff}]
  BY DEF Sane
<1>2. PICK g : g = [fl EXCEPT !.iff = i, !.else = e]
  OBVIOUS
<1>3. /\ g \in [iff : Nat, endiff : Nat, else : {0, 1, WaitEndIff}]
      /\ g.iff = i /\ g.else = e /\ g.endiff = fl.endiff
  BY <1>1, <1>2
<1>4. Sane(g)
  BY <1>3 DEF Sane
<1> QED
  BY <1>2, <1>4

\* The place to go on reading, and the count of GOSUBs.
LEMMA FrameTouched ==
  ASSUME NEW b, FrameSane(b, text), NEW x \in Int
  PROVE  /\ x >= Ended => FrameSane([b EXCEPT !.read_offset = x], text)
         /\ FrameSane([b EXCEPT !.gsoffset = x], text)
BY DEF FrameSane, Frame, Ended

\* A label, or the end of the file, is a place in it.
LEMMA LabelSane ==
  ASSUME text \in [Files -> Seq(Unit)], NEW b, FrameSane(b, text), NEW l
  PROVE  FrameSane(GotoLabel(b, l), text)
<1>1. b \in Frame
  BY DEF FrameSane
<1>2. PICK n : n = Len(text[b.name])
  OBVIOUS
<1>3. n \in Nat
  <2>1. text[b.name] \in Seq(Unit)
    BY <1>1 DEF Frame
  <2> QED
    BY <1>2, <2>1, LenProperties
<1>4. PICK g \in Frame :
         /\ g = GotoLabel(b, l) /\ g.name = b.name
         /\ g.read_offset \in 0..Len(text[b.name])
         /\ IF Labels(b.name, l) # {}
              THEN g.read_offset >= 1 /\ g.write_offset = g.read_offset - 1
              ELSE g.write_offset = g.read_offset
  BY <1>1, LabelFound
<1>5. /\ g.read_offset \in 0..n
      /\ g.write_offset = g.read_offset - 1 \/ g.write_offset = g.read_offset
  BY <1>2, <1>4
<1>6. g.write_offset <= n /\ g.read_offset >= -1
  BY <1>3, <1>5
<1> QED
  BY <1>2, <1>4, <1>6 DEF FrameSane, Ended

\* IFF, GOTO, GOSUB, RETURN, QUIT.
LEMMA MovesBat ==
  ASSUME BatInv, Iff \/ ElseOrUnknown \/ Goto \/ Gosub \/ ReturnCmd \/ Quit
  PROVE  BatInv'
<1>1. /\ text \in [Files -> Seq(Unit)] /\ FramesSane(frame, text)
      /\ StackSane(stack) /\ stack \in Seq(Activation) /\ Len(stack) \in Nat
  BY LenProperties DEF BatInv, StackSane
<1>2. \A result : result \in {"ok", "abort", "return", "run"} => result \in Results
  BY DEF Results
<1>3. CASE Iff
  <2>1. PICK op \in {"iff", "elseiff"} : Carried(op) /\ Op[Cur] = op
    BY <1>3 DEF Iff, Carried
  <2>2. /\ AtCommand /\ Sane(IffParsing(op).flags)
        /\ IffParsing(op).flags.else = 0 /\ IffParsing(op).flags.endiff = 0
    BY <2>1, CarriedOut
  <2>3. PICK else \in {0, 1} :
          flags' = [IffParsing(op).flags EXCEPT !.iff = @ + 1, !.else = @ + else]
    BY <1>3, <2>1 DEF Iff
  <2>4. Sane(flags')
    <3>1. PICK fl : fl = IffParsing(op).flags
      OBVIOUS
    <3>2. /\ fl \in [iff : Nat, endiff : Nat, else : {0, 1, WaitEndIff}]
          /\ fl.else = 0 /\ fl.endiff = 0
      BY <2>2, <3>1 DEF Sane
    <3>3. PICK i, e : i = fl.iff + 1 /\ e = fl.else + else
      OBVIOUS
    <3>4. i \in Nat /\ i # 0 /\ e \in {0, 1}
      BY <3>2, <3>3
    <3>5. flags' = [fl EXCEPT !.iff = i, !.else = e]
      BY <2>3, <3>1, <3>3
    <3>6. Sane([fl EXCEPT !.iff = i, !.else = e])
      BY <2>2, <3>1, <3>2, <3>4, IffSane
    <3> QED
      BY <3>5, <3>6
  <2>5. Finish("ok") /\ UNCHANGED <<text, frame, call_flag, for_flag>>
    BY <1>3 DEF Iff
  <2> QED
    BY <1>1, <1>2, <2>2, <2>4, <2>5, FinishBat DEF BatInv
<1>4. CASE ElseOrUnknown
  <2>1. PICK op : Carried(op) /\ Op[Cur] = op
    BY <1>4 DEF ElseOrUnknown, Carried
  <2>2. AtCommand /\ Sane(IffParsing(op).flags)
    BY <2>1, CarriedOut
  <2>3. /\ flags' = IffParsing(op).flags
        /\ Finish("ok") /\ UNCHANGED <<text, frame, call_flag, for_flag>>
    BY <1>4, <2>1 DEF ElseOrUnknown
  <2> QED
    BY <1>1, <1>2, <2>2, <2>3, FinishBat DEF BatInv
<1>5. CASE Goto
  <2>1. Carried("goto")
    BY <1>5 DEF Goto
  <2>2. AtCommand /\ Len(stack) >= 3 /\ frame # <<>>
    BY <2>1, CarriedOut
  <2>3. FrameSane(bframe, text)
    BY <1>1, <2>2, Framed
  <2>4. PICK g : g = GotoLabel(bframe, Target[Cur])
    OBVIOUS
  <2>5. FrameSane(g, text)
    BY <1>1, <2>3, <2>4, LabelSane
  <2>6. frame' = WithFrame(g)
    BY <1>5, <2>4 DEF Goto
  <2>7. FramesSane(frame', text) /\ Len(frame') = Len(frame)
    BY <1>1, <2>2, <2>5, <2>6, FrameWith
  <2>8. Sane(flags')
    <3>1. Sane(NoFlags)
      BY DEF Sane, NoFlags
    <3> QED
      BY <1>5, <3>1 DEF Goto, BatInv
  <2>9. Finish("abort") /\ UNCHANGED <<text, call_flag, for_flag>>
    BY <1>5 DEF Goto
  <2> QED
    BY <1>1, <1>2, <2>2, <2>7, <2>8, <2>9, FinishBat DEF BatInv
<1>6. CASE Gosub
  <2>1. Carried("gosub") /\ UNCHANGED <<text, flags, call_flag, for_flag>>
    BY <1>6 DEF Gosub
  <2>2. AtCommand /\ Len(stack) >= 3 /\ frame # <<>>
    BY <2>1, CarriedOut
  <2>3. FrameSane(bframe, text)
    BY <1>1, <2>2, Framed
  <2>4. PICK g : g = GotoLabel(bframe, Target[Cur])
    OBVIOUS
  <2>5. FrameSane(g, text)
    BY <1>1, <2>3, <2>4, LabelSane
  <2>6. CASE Labels(bframe.name, Target[Cur]) # {}
    <3>1. PICK x : x = g.gsoffset + 1
      OBVIOUS
    <3>2. x \in Int
      BY <2>5, <3>1 DEF FrameSane, Frame
    <3>3. FrameSane([g EXCEPT !.gsoffset = x], text)
      BY <2>5, <3>2, FrameTouched
    <3>4. frame' = WithFrame([g EXCEPT !.gsoffset = x])
      BY <1>6, <2>4, <2>6, <3>1 DEF Gosub
    <3>5. FramesSane(frame', text) /\ Len(frame') = Len(frame)
      BY <1>1, <2>2, <3>3, <3>4, FrameWith
    <3>6. PICK a, c : /\ a = [kind |-> "gosub", offset |-> bframe.read_offset]
                      /\ c = [kind |-> "batchcli"]
      OBVIOUS
    <3>7. /\ a \in Activation /\ a.kind = "gosub" /\ a.offset >= Ended
          /\ c \in Activation /\ c.kind = "batchcli"
      BY <2>3, <3>6 DEF Activation, FrameSane, Frame
    <3>8. /\ StackSane(Rest) /\ Len(Rest) = Len(stack)
          /\ Batches(Rest, Len(Rest)) = Batches(stack, Len(stack))
      BY <2>2, RestSane
    <3>9. /\ StackSane(Append(Rest, a)) /\ Len(Append(Rest, a)) >= 2
          /\ Batches(Append(Rest, a), Len(Append(Rest, a))) =
               Batches(stack, Len(stack))
      <4>1. Len(Rest) >= 2
        BY <1>1, <2>2, <3>8
      <4>2. a.kind # "batch"
        BY <3>7
      <4>3. /\ StackSane(Append(Rest, a)) /\ Len(Append(Rest, a)) >= 2
            /\ Batches(Append(Rest, a), Len(Append(Rest, a))) =
                 Batches(Rest, Len(Rest))
        BY <3>7, <3>8, <4>1, <4>2, PushSane
      <4> QED
        BY <3>8, <4>3
    <3>10. PICK s : s = Append(Rest, a)
      OBVIOUS
    <3>11. /\ StackSane(Append(s, c))
           /\ Batches(Append(s, c), Len(Append(s, c))) = Batches(s, Len(s))
      <4>1. c.kind # "batch" /\ c.kind # "gosub"
        BY <3>7
      <4>2. StackSane(s) /\ Len(s) >= 2
        BY <3>9, <3>10
      <4> QED
        BY <3>7, <4>1, <4>2, PushSane
    <3>12. stack' = Append(s, c) /\ rv' = "run"
      BY <1>6, <2>6, <3>6, <3>10 DEF Gosub
    <3>13. /\ StackSane(stack')
           /\ Batches(stack', Len(stack')) = Batches(stack, Len(stack))
      BY <3>9, <3>10, <3>11, <3>12
    <3> QED
      BY <1>2, <2>1, <3>5, <3>12, <3>13 DEF BatInv
  <2>7. CASE Labels(bframe.name, Target[Cur]) = {}
    <3>1. frame' = WithFrame(g) /\ Finish("ok")
      BY <1>6, <2>4, <2>7 DEF Gosub
    <3>2. FramesSane(frame', text) /\ Len(frame') = Len(frame)
      BY <1>1, <2>2, <2>5, <3>1, FrameWith
    <3> QED
      BY <1>1, <1>2, <2>1, <2>2, <3>1, <3>2, FinishBat DEF BatInv
  <2> QED
    BY <2>6, <2>7
<1>7. CASE ReturnCmd
  <2>1. Carried("return") /\ UNCHANGED <<text, flags, call_flag, for_flag>>
    BY <1>7 DEF ReturnCmd
  <2>2. AtCommand /\ Len(stack) >= 3 /\ frame # <<>>
    BY <2>1, CarriedOut
  <2>3. FrameSane(bframe, text)
    BY <1>1, <2>2, Framed
  <2>4. CASE bframe.gsoffset = 0
    <3>1. Finish("ok") /\ UNCHANGED frame
      BY <1>7, <2>4 DEF ReturnCmd
    <3> QED
      BY <1>1, <1>2, <2>1, <2>2, <3>1, FinishBat DEF BatInv
  <2>5. CASE bframe.gsoffset # 0
    <3>1. PICK b, x : b = bframe /\ x = b.gsoffset - 1
      OBVIOUS
    <3>2. x \in Int /\ FrameSane(b, text)
      BY <2>3, <3>1 DEF FrameSane, Frame
    <3>3. FrameSane([b EXCEPT !.gsoffset = x], text)
      BY <3>2, FrameTouched
    <3>4. frame' = WithFrame([b EXCEPT !.gsoffset = x]) /\ Finish("return")
      BY <1>7, <2>5, <3>1 DEF ReturnCmd
    <3>5. FramesSane(frame', text) /\ Len(frame') = Len(frame)
      BY <1>1, <2>2, <3>3, <3>4, FrameWith
    <3> QED
      BY <1>1, <1>2, <2>1, <2>2, <3>4, <3>5, FinishBat DEF BatInv
  <2> QED
    BY <2>4, <2>5
<1>8. CASE Quit
  <2>1. /\ Carried("quit") \/ Carried("cancel")
        /\ Finish("abort") /\ UNCHANGED <<text, flags, call_flag, for_flag>>
    BY <1>8 DEF Quit
  <2>2. AtCommand /\ Len(stack) >= 3 /\ frame # <<>>
    BY <2>1, CarriedOut
  <2>3. FrameSane(bframe, text)
    BY <1>1, <2>2, Framed
  <2>4. \/ frame' = WithFrame([bframe EXCEPT !.read_offset = Ended])
        \/ frame' = [i \in DOMAIN frame |-> [frame[i] EXCEPT !.read_offset = Ended]]
    BY <1>8 DEF Quit
  <2>5. FramesSane(frame', text) /\ Len(frame') = Len(frame)
    <3>1. Ended \in Int /\ Ended >= Ended
      BY DEF Ended
    <3>2. FrameSane([bframe EXCEPT !.read_offset = Ended], text)
      BY <2>3, <3>1, FrameTouched
    <3> QED
      BY <1>1, <2>2, <2>4, <3>2, FrameWith, FramesEnded
  <2> QED
    BY <1>1, <1>2, <2>1, <2>2, <2>5, FinishBat DEF BatInv
<1> QED
  BY <1>3, <1>4, <1>5, <1>6, <1>7, <1>8

\* A body of CALL, IF or FOR is run, on the same line.
LEMMA BodyBat ==
  ASSUME BatInv, AtCommand, Len(stack) >= 3,
         NEW a \in Activation, a.kind \in {"call", "if", "for"},
         NEW body \in Cmds, RunBody(a, body),
         UNCHANGED <<text, flags>>, call_flag' \in BOOLEAN, for_flag' \in BOOLEAN
  PROVE  BatInv'
<1>1. stack \in Seq(Activation)
  BY DEF BatInv, StackSane
<1>2. Len(stack) >= 2
  BY <1>1, LenProperties
<1>3. frame # <<>> /\ FrameSane(bframe, text)
  BY <1>2, Framed
<1>4. /\ StackSane(Rest) /\ Len(Rest) = Len(stack)
      /\ Batches(Rest, Len(Rest)) = Batches(stack, Len(stack))
  BY RestSane
<1>5. a.kind # "batch" /\ a.kind # "gosub" /\ Len(Rest) >= 2
  BY <1>2, <1>4
<1>6. /\ StackSane(Append(Rest, a)) /\ Len(Append(Rest, a)) >= 2
      /\ Batches(Append(Rest, a), Len(Append(Rest, a))) = Batches(Rest, Len(Rest))
  BY <1>4, <1>5, PushSane
<1>7. PICK s, c : s = Append(Rest, a) /\ c = <<body>>
  OBVIOUS
<1>8. /\ StackSane(s) /\ Len(s) >= 2 /\ Batches(s, Len(s)) = Len(frame)
      /\ c \in Seq(Cmds)
  BY <1>4, <1>6, <1>7 DEF BatInv
<1>9. EnterCommand(bframe, s, c)
  BY <1>7 DEF RunBody
<1>10. /\ FramesSane(frame', text)
       /\ StackSane(stack') /\ rv' \in Results
       /\ Len(frame') = Batches(stack', Len(stack'))
  BY <1>3, <1>8, <1>9, Entered
<1> QED
  BY <1>10 DEF BatInv

\* CALL, IF, FOR.
LEMMA BodiesBat ==
  ASSUME BatInv, Call \/ If \/ For
  PROVE  BatInv'
<1>1. PICK op \in {"call", "if", "for"} : Carried(op)
  BY DEF Call, If, For
<1>2. AtCommand /\ Len(stack) >= 3 /\ Op[Cur] = op
  BY <1>1, CarriedOut
<1>3. Cur \in Cmds
  BY <1>2, Carrying
<1>4. Body[Cur] \in Cmds
  BY <1>3, BatchAssumption
<1>5. CASE Call
  <2>1. PICK a : a = [kind |-> "call"]
    OBVIOUS
  <2>2. a \in Activation /\ a.kind \in {"call", "if", "for"}
    BY <2>1 DEF Activation
  <2>3. RunBody(a, Body[Cur])
    BY <1>5, <2>1 DEF Call
  <2>4. UNCHANGED <<text, flags>> /\ call_flag' \in BOOLEAN /\ for_flag' \in BOOLEAN
    BY <1>5 DEF Call, BatInv
  <2> QED
    BY <1>2, <1>4, <2>2, <2>3, <2>4, BodyBat
<1>6. CASE If
  <2>1. PICK a : a = [kind |-> "if"]
    OBVIOUS
  <2>2. a \in Activation /\ a.kind \in {"call", "if", "for"}
    BY <2>1 DEF Activation
  <2>3. UNCHANGED <<text, flags>> /\ call_flag' \in BOOLEAN /\ for_flag' \in BOOLEAN
    BY <1>6 DEF If, BatInv
  <2>4. RunBody(a, Body[Cur]) \/ (Finish("ok") /\ UNCHANGED frame)
    BY <1>6, <2>1 DEF If
  <2>5. CASE Finish("ok") /\ UNCHANGED frame
    <3>1. "ok" \in Results
      BY DEF Results
    <3> QED
      BY <1>2, <2>3, <2>5, <3>1, FinishBat DEF BatInv
  <2> QED
    BY <1>2, <1>4, <2>2, <2>3, <2>4, <2>5, BodyBat
<1>7. CASE For
  <2>1. PICK a : a = [kind |-> "for", left |-> ForItems - 1, body |-> Body[Cur]]
    OBVIOUS
  <2>2. a \in Activation /\ a.kind \in {"call", "if", "for"}
    <3>1. ForItems - 1 \in Nat
      BY BatchAssumption
    <3> QED
      BY <1>4, <2>1, <3>1 DEF Activation
  <2>3. RunBody(a, Body[Cur])
    BY <1>7, <2>1 DEF For
  <2>4. UNCHANGED <<text, flags>> /\ call_flag' \in BOOLEAN /\ for_flag' \in BOOLEAN
    BY <1>7 DEF For, BatInv
  <2> QED
    BY <1>2, <1>4, <2>2, <2>3, <2>4, BodyBat
<1> QED
  BY <1>5, <1>6, <1>7

\* A file is read from its beginning.
LEMMA NewSane ==
  ASSUME text \in [Files -> Seq(Unit)], Cur \in Cmds, Op[Cur] = "batch"
  PROVE  FrameSane(NewFrame(Target[Cur]), text)
<1>1. PICK f : f = Target[Cur]
  OBVIOUS
<1>2. f \in Files
  BY <1>1, BatchAssumption
<1>3. text[f] \in Seq(Unit)
  BY <1>2
<1>4. 0 <= Len(text[f])
  <2>1. PICK n : n = Len(text[f])
    OBVIOUS
  <2>2. n \in Nat
    BY <1>3, <2>1, LenProperties
  <2> QED
    BY <2>1, <2>2
<1>5. PICK g : g = NewFrame(f)
  OBVIOUS
<1>6. g \in Frame /\ g.name = f /\ g.read_offset = 0 /\ g.write_offset = 0
  BY <1>2, <1>5 DEF NewFrame, Frame, NoLine
<1>7. FrameSane(g, text)
  BY <1>4, <1>6 DEF FrameSane, Ended
<1> QED
  BY <1>1, <1>5, <1>7

\* A batch file is not nested: too deep, or in place of the one that names it.
LEMMA ChainBat ==
  ASSUME BatInv, TooDeep \/ Chain
  PROVE  BatInv'
<1>1. AtCommand /\ Op[Cur] = "batch" /\ UNCHANGED <<text, call_flag, for_flag>>
  BY DEF TooDeep, Chain, Carried
<1>2. CASE TooDeep
  <2>1. Finish("ok") /\ UNCHANGED <<frame, flags>> /\ "ok" \in Results
    BY <1>2 DEF TooDeep, Results
  <2> QED
    BY <1>1, <2>1, FinishBat DEF BatInv
<1>3. CASE Chain
  <2>1. PICK g : g = NewFrame(Target[Cur])
    OBVIOUS
  <2>2. FrameSane(g, text)
    BY <1>1, <2>1, NewSane, Carrying DEF BatInv
  <2>3. /\ frame # <<>> /\ frame' = WithFrame(g) /\ flags' = NoFlags
        /\ Finish("abort") /\ "abort" \in Results
    BY <1>3, <2>1 DEF Chain, Results
  <2>4. FramesSane(frame', text) /\ Len(frame') = Len(frame)
    BY <2>2, <2>3, FrameWith DEF BatInv
  <2>5. Sane(flags')
    BY <2>3 DEF Sane, NoFlags
  <2> QED
    BY <1>1, <2>3, <2>4, <2>5, FinishBat DEF BatInv
<1> QED
  BY <1>2, <1>3

\* A batch file is nested.
LEMMA NestedBat ==
  ASSUME BatInv, Nested
  PROVE  BatInv'
<1>1. /\ AtCommand /\ Op[Cur] = "batch" /\ UNCHANGED <<text, for_flag>>
      /\ Len(frame) < MaxBatch /\ flags' = NoFlags /\ call_flag' = FALSE
      /\ rv' = "run"
  BY DEF Nested, Carried
<1>2. PICK g : g = NewFrame(Target[Cur])
  OBVIOUS
<1>3. FrameSane(g, text)
  BY <1>1, <1>2, NewSane, Carrying DEF BatInv
<1>4. frame' = Append(frame, g)
  BY <1>2 DEF Nested
<1>5. FramesSane(frame', text) /\ Len(frame') = Len(frame) + 1
  <2>1. frame \in Seq(Frame) /\ g \in Frame
    BY <1>3 DEF BatInv, FramesSane, FrameSane
  <2>2. PICK n : n = Len(frame)
    OBVIOUS
  <2>3. /\ Append(frame, g) \in Seq(Frame) /\ n \in Nat
        /\ Len(Append(frame, g)) = n + 1
        /\ \A i \in 1..n : Append(frame, g)[i] = frame[i]
        /\ Append(frame, g)[n + 1] = g
    BY <2>1, <2>2, Pushed
  <2>4. /\ frame' \in Seq(Frame) /\ n \in Nat
        /\ Len(frame') = n + 1
        /\ \A i \in 1..n : frame'[i] = frame[i]
        /\ frame'[n + 1] = g
    BY <1>4, <2>3
  <2>5. \A i \in 1..(n + 1) : i \in 1..n \/ i = n + 1
    BY <2>4
  <2>6. \A i \in 1..n : FrameSane(frame[i], text)
    BY <2>2 DEF BatInv, FramesSane
  <2>7. \A i \in 1..(n + 1) : FrameSane(frame'[i], text)
    BY <1>3, <2>4, <2>5, <2>6, Zenon
  <2>8. n + 1 <= MaxBatch
    BY <1>1, <2>2, <2>4, BatchAssumption
  <2>9. \A i \in 1..Len(frame') : FrameSane(frame'[i], text)
    BY <2>4, <2>7
  <2> QED
    BY <2>2, <2>4, <2>8, <2>9 DEF FramesSane
<1>6. PICK a, c : a = [kind |-> "batch", save |-> flags] /\ c = [kind |-> "batchcli"]
  OBVIOUS
<1>7. c \in Activation /\ c.kind # "batch" /\ c.kind # "gosub"
  BY <1>6 DEF Activation
<1>8. /\ StackSane(Rest) /\ Rest # <<>>
      /\ Batches(Rest, Len(Rest)) = Len(frame)
  BY <1>1, RestSane DEF BatInv
<1>9. /\ StackSane(Append(Rest, a)) /\ Len(Append(Rest, a)) >= 2
      /\ Batches(Append(Rest, a), Len(Append(Rest, a))) = Batches(Rest, Len(Rest)) + 1
  <2>1. Sane(flags)
    BY DEF BatInv
  <2> QED
    BY <1>6, <1>8, <2>1, NestSane
<1>10. PICK s : s = Append(Rest, a)
  OBVIOUS
<1>11. /\ StackSane(Append(s, c))
       /\ Batches(Append(s, c), Len(Append(s, c))) = Batches(s, Len(s))
  <2>1. StackSane(s) /\ Len(s) >= 2
    BY <1>9, <1>10
  <2> QED
    BY <1>7, <2>1, PushSane
<1>12. stack' = Append(s, c)
  BY <1>6, <1>10 DEF Nested
<1>13. /\ StackSane(stack')
       /\ Batches(stack', Len(stack')) = Len(frame) + 1
  BY <1>8, <1>9, <1>10, <1>11, <1>12
<1>14. Sane(flags')
  BY <1>1 DEF Sane, NoFlags
<1> QED
  BY <1>1, <1>5, <1>13, <1>14 DEF BatInv, Results

\* Functions return, or FOR goes on with the next item.
LEMMA ReturnsBat ==
  ASSUME BatInv, Returns
  PROVE  BatInv'
<1>1. /\ text \in [Files -> Seq(Unit)] /\ FramesSane(frame, text)
      /\ StackSane(stack) /\ stack \in Seq(Activation) /\ Len(stack) \in Nat
  BY LenProperties DEF BatInv, StackSane
<1>2. CASE GosubDone
  <2>1. /\ stack # <<>> /\ Top.kind = "gosub" /\ stack' = Below /\ rv' = rv
        /\ UNCHANGED <<text, flags, call_flag, for_flag>>
    BY <1>2 DEF GosubDone, Return
  <2>2. StackSane(Below) /\ Batches(Below, Len(Below)) = Batches(stack, Len(stack))
    BY <2>1, PopSane
  <2>3. /\ Top = stack[Len(stack)] /\ Len(stack) \in Nat \ {0}
        /\ Top \in Activation /\ Len(stack) >= 2
    BY <2>1, Running
  <2>4. Top.offset \in Int /\ Top.offset >= Ended
    <3>1. Len(stack) \in 1..Len(stack)
      BY <2>3
    <3> QED
      BY <1>1, <2>1, <2>3, <3>1 DEF StackSane, Activation
  <2>5. PICK b : b = bframe
    OBVIOUS
  <2>6. frame # <<>> /\ FrameSane(b, text)
    BY <2>3, <2>5, Framed
  <2>7. PICK x : x = IF rv = "ctrlc" THEN Ended
                     ELSE IF b.read_offset # Ended THEN Top.offset
                                                   ELSE b.read_offset
    OBVIOUS
  <2>8. x \in Int /\ x >= Ended
    BY <2>4, <2>7 DEF Ended
  <2>9. FrameSane([b EXCEPT !.read_offset = x], text)
    BY <2>6, <2>8, FrameTouched
  <2>10. frame' = WithFrame([b EXCEPT !.read_offset = x])
    BY <1>2, <2>5, <2>7 DEF GosubDone
  <2>11. FramesSane(frame', text) /\ Len(frame') = Len(frame)
    BY <1>1, <2>6, <2>9, <2>10, FrameWith
  <2> QED
    BY <2>1, <2>2, <2>11 DEF BatInv
<1>3. CASE CallDone \/ IfDone \/ ForDone
  <2>1. /\ stack # <<>> /\ Top.kind # "batch" /\ stack' = Below /\ rv' = rv
        /\ UNCHANGED <<text, frame, flags>>
        /\ call_flag' \in BOOLEAN /\ for_flag' \in BOOLEAN
    BY <1>3 DEF CallDone, IfDone, ForDone, ForBack, Return, BatInv
  <2>2. StackSane(Below) /\ Batches(Below, Len(Below)) = Batches(stack, Len(stack))
    BY <2>1, PopSane
  <2> QED
    BY <2>1, <2>2 DEF BatInv
<1>4. CASE NestedDone
  <2>1. /\ stack # <<>> /\ Top.kind = "batch" /\ stack' = Below /\ rv' = rv
        /\ flags' = Top.save /\ frame' = Front(frame)
        /\ UNCHANGED <<text, call_flag, for_flag>>
    BY <1>4 DEF NestedDone, Return
  <2>2. /\ StackSane(Below) /\ Sane(Top.save)
        /\ Batches(stack, Len(stack)) = Batches(Below, Len(Below)) + 1
    BY <2>1, UnnestSane
  <2>3. Len(stack) >= 2
    BY <2>1, Running
  <2>4. frame # <<>> /\ frame \in Seq(Frame)
    BY <2>3, Framed
  <2>5. PICK n : n = Len(frame)
    OBVIOUS
  <2>6. /\ frame' \in Seq(Frame) /\ Len(frame') = n - 1 /\ n \in Nat \ {0}
        /\ \A i \in 1..(n - 1) : frame'[i] = frame[i]
    BY <2>1, <2>4, <2>5, Popped
  <2>7. \A i \in 1..(n - 1) : i \in 1..n
    BY <2>6
  <2>8. \A i \in 1..n : FrameSane(frame[i], text)
    BY <1>1, <2>5 DEF FramesSane
  <2>9. \A i \in 1..(n - 1) : FrameSane(frame'[i], text)
    BY <2>6, <2>7, <2>8, Zenon
  <2>10. n - 1 <= MaxBatch
    <3>1. n <= MaxBatch
      BY <1>1, <2>5 DEF FramesSane
    <3> QED
      BY <2>6, <3>1, BatchAssumption
  <2>11. FramesSane(frame', text)
    BY <2>6, <2>9, <2>10 DEF FramesSane
  <2>12. Len(frame') = Batches(Below, Len(Below))
    <3>1. Below \in Seq(Activation)
      BY <2>2 DEF StackSane
    <3>2. Len(Below) \in Nat
      BY <3>1, LenProperties
    <3>3. PICK k : k = Batches(Below, Len(Below))
      OBVIOUS
    <3>4. k \in Nat
      BY <3>2, <3>3, BatchesCount
    <3>5. n = k + 1
      BY <2>2, <2>5, <3>3 DEF BatInv
    <3>6. n - 1 = k
      BY <3>4, <3>5
    <3> QED
      BY <2>6, <3>3, <3>6
  <2> QED
    BY <2>1, <2>2, <2>11, <2>12 DEF BatInv
<1>5. CASE ForNext
  <2>1. /\ stack # <<>> /\ Top.kind = "for" /\ Top.left # 0
        /\ UNCHANGED <<text, flags, call_flag, for_flag>>
    BY <1>5 DEF ForNext, ForBack, ForOver
  <2>2. /\ Len(stack) >= 3 /\ Top \in Activation
        /\ Len(stack) \in Nat /\ Len(stack) >= 2
    BY <1>1, <2>1, Running
  <2>3. Top \in [kind : {"for"}, left : Nat, body : Cmds]
    BY <2>1, <2>2 DEF Activation
  <2>4. PICK t, x, a : t = Top /\ x = t.left - 1 /\ a = [t EXCEPT !.left = x]
    OBVIOUS
  <2>5. t \in [kind : {"for"}, left : Nat, body : Cmds] /\ t.left # 0
    BY <2>1, <2>3, <2>4
  <2>6. x \in Nat
    BY <2>4, <2>5
  <2>7. a \in [kind : {"for"}, left : Nat, body : Cmds]
    BY <2>4, <2>5, <2>6
  <2>8. a \in Activation /\ a.kind \notin {"batch", "gosub"}
    BY <2>7 DEF Activation
  <2>9. Top.kind # "batch"
    BY <2>1
  <2>10. /\ StackSane(Append(Below, a)) /\ Len(Append(Below, a)) = Len(stack)
         /\ Batches(Append(Below, a), Len(Append(Below, a))) =
              Batches(stack, Len(stack))
    BY <2>1, <2>2, <2>8, <2>9, RetopSane
  <2>11. PICK s, c : s = Append(Below, a) /\ c = <<t.body>>
    OBVIOUS
  <2>12. /\ StackSane(s) /\ Len(s) >= 2 /\ Batches(s, Len(s)) = Len(frame)
         /\ c \in Seq(Cmds)
    BY <2>2, <2>5, <2>10, <2>11 DEF BatInv
  <2>13. EnterCommand(bframe, s, c)
    BY <1>5, <2>4, <2>11 DEF ForNext
  <2>14. frame # <<>> /\ FrameSane(bframe, text)
    BY <2>2, Framed
  <2>15. /\ FramesSane(frame', text)
         /\ StackSane(stack') /\ rv' \in Results
         /\ Len(frame') = Batches(stack', Len(stack'))
    BY <2>12, <2>13, <2>14, Entered
  <2> QED
    BY <2>1, <2>15 DEF BatInv
<1> QED
  BY <1>2, <1>3, <1>4, <1>5 DEF Returns

\* Every step keeps the invariant.
LEMMA NextBat ==
  ASSUME BatInv, [Next]_vars
  PROVE  BatInv'
<1>1. CASE Next
  <2>1. CASE Batchcli \/ CtrlC
    BY <2>1, BatchcliBat
  <2>2. CASE Command
    BY <2>2, CommandBat
  <2>3. CASE External
    BY <2>3, ExternalBat
  <2>4. CASE Internal
    BY <2>4, MovesBat, BodiesBat, ChainBat, NestedBat DEF Internal
  <2>5. CASE Returns
    BY <2>5, ReturnsBat
  <2> QED
    BY <1>1, <2>1, <2>2, <2>3, <2>4, <2>5 DEF Next, Step
<1>2. CASE UNCHANGED vars
  BY <1>2 DEF vars, BatInv, FramesSane, StackSane, Batches, Sane, FrameSane
<1> QED
  BY <1>1, <1>2

\* BATPROC starts with the one command that names a batch file.
LEMMA InitBat ==
  ASSUME Init
  PROVE  BatInv
<1>1. text \in [Files -> Seq(Unit)]
  <2>1. text \in [Files -> Seq([ins : {FALSE}, cmds : Seq(Cmds)])]
    BY BatchAssumption DEF Init
  <2>2. PICK U : U = [ins : {FALSE}, cmds : Seq(Cmds)]
    OBVIOUS
  <2>3. U \subseteq Unit
    BY <2>2 DEF Unit
  <2>4. \A f \in Files : text[f] \in Seq(Unit)
    <3> SUFFICES ASSUME NEW f \in Files
                 PROVE  text[f] \in Seq(Unit)
      OBVIOUS
    <3>1. text[f] \in Seq(U)
      BY <2>1, <2>2
    <3> QED
      BY <2>3, <3>1, SeqMonotonic
  <2> QED
    BY <2>1, <2>4
<1>2. FramesSane(frame, text)
  <2>1. frame = <<>> /\ MaxBatch \in Nat
    BY BatchAssumption DEF Init
  <2>2. <<>> \in Seq(Frame) /\ Len(<<>>) = 0
    BY EmptySeq
  <2> QED
    BY <2>1, <2>2 DEF FramesSane
<1>3. Sane(flags) /\ call_flag \in BOOLEAN /\ for_flag \in BOOLEAN /\ rv \in Results
  <2>1. flags = NoFlags /\ call_flag = FALSE /\ for_flag = FALSE /\ rv = "run"
    BY DEF Init
  <2>2. Sane(NoFlags)
    BY DEF Sane, NoFlags
  <2> QED
    BY <2>1, <2>2 DEF Results
<1>4. PICK r, e : r = <<Start>> /\ e = [kind |-> "command", rest |-> r]
  OBVIOUS
<1>5. r \in Seq(Cmds)
  BY <1>4, BatchAssumption
<1>6. e \in Activation /\ e.kind = "command" /\ e.rest = <<Start>>
  BY <1>4, <1>5 DEF Activation
<1>7. PICK s : s = <<e>>
  OBVIOUS
<1>8. s \in Seq(Activation) /\ Len(s) = 1 /\ s[1] = e
  BY <1>6, <1>7
<1>9. stack = s
  BY <1>4, <1>7 DEF Init
<1>10. \A k \in 1..Len(s) : k = 1
  BY <1>8
<1>11. StackSane(s)
  BY <1>6, <1>8, <1>10 DEF StackSane
<1>12. Batches(s, 1) = 0
  <2>1. Batches(s, 0 + 1) = IF s[0 + 1].kind = "batch"
                              THEN Batches(s, 0) + 1 ELSE Batches(s, 0)
    BY BatchesCount
  <2>2. Batches(s, 0) = 0 /\ 0 + 1 = 1
    BY BatchesCount
  <2> QED
    BY <1>6, <1>8, <2>1, <2>2
<1>13. Len(frame) = 0
  BY EmptySeq DEF Init
<1> QED
  BY <1>1, <1>2, <1>3, <1>8, <1>9, <1>11, <1>12, <1>13 DEF BatInv

\* What BATPROC does keeps its activations, frames and counters in step.
LEMMA BatAlways ==
  Spec => []BatInv
<1>1. Init => BatInv
  BY InitBat
<1>2. BatInv /\ [Next]_vars => BatInv'
  BY NextBat
<1> QED
  BY <1>1, <1>2, PTL DEF Spec

\* The types hold in every state, for all batch files and bounds.
THEOREM BatchTypes ==
  Spec => []TypeOK
<1>1. BatInv => TypeOK
  BY DEF BatInv, TypeOK, FramesSane, StackSane, Sane, WaitEndIff
<1> QED
  BY <1>1, BatAlways, PTL

\* Every batch file that is started is ended once: as many frames as
\* activations of batch.
THEOREM FramesMatch ==
  Spec => []OneFramePerBatch
<1>1. BatInv => OneFramePerBatch
  <2> SUFFICES ASSUME BatInv
               PROVE  OneFramePerBatch
    OBVIOUS
  <2>1. stack \in Seq(Activation)
    BY DEF BatInv, StackSane
  <2>2. DOMAIN stack = 1..Len(stack)
    BY <2>1, LenProperties
  <2> QED
    BY <2>2 DEF OneFramePerBatch, BatInv, Batches
<1> QED
  BY <1>1, BatAlways, PTL

-----------------------------------------------------------------------------
(* Places in a file.  u is the sequence of its units. *)

\* LineAt, of any sequence of units.
Lines(u, o) == Cardinality({k \in 1..o : k <= Len(u) /\ ~u[k].ins})

\* Where a line starts.
Starts(u, o) == o \in 0..Len(u) /\ (o > 0 => ~u[o].ins)

\* What is put in front of a line is one CALL, and a line follows it.
UnitsGood(u) ==
    \A k \in 1..Len(u) :
       u[k].ins => u[k].cmds = <<InsCall>> /\ k < Len(u) /\ ~u[k + 1].ins

\* A frame knows the number of the line that it will read next, and where the
\* last one that it read started.
Place(fr, u) ==
    /\ Starts(u, fr.write_offset)
    /\ \/ fr.read_offset = Ended
       \/ Starts(u, fr.read_offset) /\ Lines(u, fr.read_offset) = fr.line_number

\* It is carrying out the line that it read last.
OnLine(fr, u) ==
    fr.write_offset < Len(u) /\ Lines(u, fr.write_offset) = fr.line_number - 1

\* The command stands in that line, or is run by one that does.
MayRun(fr, u, c) ==
    \E i \in DOMAIN u[fr.write_offset + 1].cmds :
       c \in Within[u[fr.write_offset + 1].cmds[i]]

\* Lines are counted one unit at a time.
LEMMA LinesCount ==
  ASSUME NEW u \in Seq(Unit), NEW o \in Nat
  PROVE  /\ Lines(u, o) \in Nat /\ Lines(u, 0) = 0
         /\ o < Len(u) =>
              Lines(u, o + 1) = IF u[o + 1].ins THEN Lines(u, o) ELSE Lines(u, o) + 1
<1>1. PICK B : B = {k \in 1..o : k <= Len(u) /\ ~u[k].ins}
  OBVIOUS
<1>2. Lines(u, o) = Cardinality(B)
  BY <1>1 DEF Lines
<1>3. IsFiniteSet(B) /\ Cardinality(B) \in Nat
  <2>1. IsFiniteSet(1..o) /\ B \subseteq 1..o
    BY <1>1, FS_Interval
  <2> QED
    BY <2>1, FS_Subset, FS_CardinalityType
<1>4. Lines(u, 0) = 0
  <2>1. {k \in 1..0 : k <= Len(u) /\ ~u[k].ins} = {}
    OBVIOUS
  <2> QED
    BY <2>1, FS_EmptySet DEF Lines
<1>5. PICK n : n = Len(u)
  OBVIOUS
<1>6. n \in Nat
  BY <1>5, LenProperties
<1>7. ASSUME o < Len(u)
      PROVE  Lines(u, o + 1) = IF u[o + 1].ins THEN Lines(u, o) ELSE Lines(u, o) + 1
  <2>1. PICK C : C = {k \in 1..(o + 1) : k <= Len(u) /\ ~u[k].ins}
    OBVIOUS
  <2>2. Lines(u, o + 1) = Cardinality(C)
    BY <2>1 DEF Lines
  <2>3. o < n
    BY <1>5, <1>7
  <2>4. \A k : k \in 1..(o + 1) <=> k \in 1..o \/ k = o + 1
    OBVIOUS
  <2>5. o + 1 <= n /\ o + 1 \notin 1..o
    BY <1>6, <2>3
  <2>6. CASE u[o + 1].ins
    <3>1. C = B
      BY <1>1, <1>5, <2>1, <2>4, <2>5, <2>6
    <3> QED
      BY <1>2, <2>2, <2>6, <3>1
  <2>7. CASE ~u[o + 1].ins
    <3>1. C = B \cup {o + 1}
      BY <1>1, <1>5, <2>1, <2>4, <2>5, <2>7
    <3>2. o + 1 \notin B
      BY <1>1, <2>5
    <3>3. Cardinality(B \cup {o + 1}) = Cardinality(B) + 1
      BY <1>3, <3>2, FS_AddElement
    <3> QED
      BY <1>2, <2>2, <2>7, <3>1, <3>3
  <2> QED
    BY <2>6, <2>7
<1> QED
  BY <1>2, <1>3, <1>4, <1>7

\* They are counted before an offset only.
LEMMA LinesSame ==
  ASSUME NEW u \in Seq(Unit), NEW v \in Seq(Unit), NEW o \in Nat,
         o <= Len(u), o <= Len(v), \A k \in 1..o : v[k] = u[k]
  PROVE  Lines(v, o) = Lines(u, o)
<1>1. PICK m, n : m = Len(u) /\ n = Len(v)
  OBVIOUS
<1>2. m \in Nat /\ n \in Nat /\ o <= m /\ o <= n
  BY <1>1, LenProperties
<1>3. \A k \in 1..o : k <= m /\ k <= n
  BY <1>2
<1>4. {k \in 1..o : k <= Len(v) /\ ~v[k].ins} = {k \in 1..o : k <= Len(u) /\ ~u[k].ins}
  BY <1>1, <1>3
<1> QED
  BY <1>4 DEF Lines

\* The end of a file is where a line would start.
LEMMA EndStarts ==
  ASSUME NEW u \in Seq(Unit), UnitsGood(u)
  PROVE  Starts(u, Len(u)) /\ Starts(u, 0)
<1>1. PICK n : n = Len(u)
  OBVIOUS
<1>2. n \in Nat
  BY <1>1, LenProperties
<1>3. \A k \in 1..n : u[k].ins => k < n
  BY <1>1 DEF UnitsGood
<1>4. n \in 0..n /\ 0 \in 0..n /\ ~(0 > 0) /\ ~(n < n) /\ (n > 0 => n \in 1..n)
  BY <1>2
<1>5. n > 0 => ~u[n].ins
  BY <1>3, <1>4
<1> QED
  BY <1>1, <1>4, <1>5 DEF Starts

\* getline reads a whole line, with what is put in front of it.
LEMMA LineWhole ==
  ASSUME text \in [Files -> Seq(Unit)], NEW f \in Files, UnitsGood(text[f]),
         NEW o \in Nat, o < Len(text[f])
  PROVE  /\ Starts(text[f], NextLine(f, o))
         /\ Lines(text[f], NextLine(f, o)) = Lines(text[f], o) + 1
<1>1. PICK u, n, m : u = text[f] /\ n = Len(u) /\ m = NextLine(f, o)
  OBVIOUS
<1>2. u \in Seq(Unit)
  BY <1>1
<1>3. n \in Nat
  BY <1>1, <1>2, LenProperties
<1>4. /\ m \in (o + 1)..n
      /\ \A k \in (o + 1)..m : k = m \/ u[k].ins
      /\ u[m].ins => m = n
  BY <1>1, LineRead
<1>5. \A k \in 1..n : u[k].ins => k < n /\ ~u[k + 1].ins
  BY <1>1 DEF UnitsGood
<1>6. m \in 1..n /\ m \in Nat
  BY <1>3, <1>4
<1>7. ~u[m].ins
  BY <1>3, <1>4, <1>5, <1>6
<1>8. m = o + 1 \/ (m = (o + 1) + 1 /\ u[o + 1].ins)
  <2>1. m = o + 1 \/ m = o + 2 \/ m >= o + 3
    BY <1>4, <1>6
  <2>2. CASE m >= o + 3
    <3>1. /\ o + 1 \in (o + 1)..m /\ o + 1 # m /\ o + 1 \in 1..n
          /\ (o + 1) + 1 \in (o + 1)..m /\ (o + 1) + 1 # m
      BY <1>3, <1>4, <1>6, <2>2
    <3>2. u[o + 1].ins /\ u[(o + 1) + 1].ins
      BY <1>4, <3>1
    <3> QED
      BY <1>5, <3>1, <3>2
  <2>3. CASE m = o + 2
    <3>1. o + 1 \in (o + 1)..m /\ o + 1 # m /\ m = (o + 1) + 1
      BY <1>6, <2>3
    <3> QED
      BY <1>4, <3>1
  <2> QED
    BY <2>1, <2>2, <2>3
<1>9. o + 1 \in Nat /\ o < n
  BY <1>1
<1>10. Lines(u, o) \in Nat /\ Lines(u, o + 1) \in Nat
  BY <1>2, <1>9, LinesCount
<1>11. /\ Lines(u, o + 1) = IF u[o + 1].ins THEN Lines(u, o) ELSE Lines(u, o) + 1
       /\ o + 1 < n => Lines(u, (o + 1) + 1) =
              IF u[(o + 1) + 1].ins THEN Lines(u, o + 1) ELSE Lines(u, o + 1) + 1
  <2>1. o < Len(u) => Lines(u, o + 1) =
              IF u[o + 1].ins THEN Lines(u, o) ELSE Lines(u, o) + 1
    BY <1>2, LinesCount
  <2>2. o + 1 < Len(u) => Lines(u, (o + 1) + 1) =
              IF u[(o + 1) + 1].ins THEN Lines(u, o + 1) ELSE Lines(u, o + 1) + 1
    BY <1>2, <1>9, LinesCount
  <2> QED
    BY <1>1, <1>9, <2>1, <2>2
<1>12. Lines(u, m) = Lines(u, o) + 1
  <2>1. CASE m = o + 1
    BY <1>7, <1>11, <2>1
  <2>2. CASE m = (o + 1) + 1 /\ u[o + 1].ins
    <3>1. o + 1 < n
      BY <1>3, <1>6, <2>2
    <3> QED
      BY <1>7, <1>11, <2>2, <3>1
  <2> QED
    BY <1>8, <2>1, <2>2
<1>13. Starts(u, m)
  <2>1. m \in 0..n
    BY <1>6
  <2> QED
    BY <1>1, <1>7, <2>1 DEF Starts
<1> QED
  BY <1>1, <1>12, <1>13

\* goto_label finds a label, or the end: where a line starts, and it knows which.
LEMMA LabelPlaced ==
  ASSUME text \in [Files -> Seq(Unit)], NEW fr \in Frame, UnitsGood(text[fr.name]),
         NEW l
  PROVE  Place(GotoLabel(fr, l), text[fr.name])
<1>1. PICK f, u, n : f = fr.name /\ u = text[f] /\ n = Len(u)
  OBVIOUS
<1>2. f \in Files
  BY <1>1 DEF Frame
<1>3. u \in Seq(Unit)
  BY <1>1, <1>2
<1>4. n \in Nat
  BY <1>1, <1>3, LenProperties
<1>5. PICK g \in Frame :
         /\ g = GotoLabel(fr, l)
         /\ g.read_offset \in 0..Len(text[fr.name])
         /\ g.line_number = LineAt(fr.name, g.read_offset)
         /\ IF Labels(fr.name, l) # {}
              THEN /\ g.read_offset \in Labels(fr.name, l)
                   /\ g.read_offset >= 1
                   /\ g.write_offset = g.read_offset - 1
              ELSE /\ g.read_offset = Len(text[fr.name])
                   /\ g.write_offset = g.read_offset
  BY LabelFound, ZenonT(60)
<1>6. g.read_offset \in 0..n /\ g.line_number = Lines(u, g.read_offset)
  BY <1>1, <1>5 DEF LineAt, Lines
<1>7. CASE Labels(f, l) = {}
  <2>1. g.read_offset = n /\ g.write_offset = n
    BY <1>1, <1>5, <1>7
  <2>2. Starts(u, n)
    BY <1>1, <1>3, EndStarts
  <2>3. Place(g, u)
    BY <1>6, <2>1, <2>2 DEF Place
  <2> QED
    BY <1>1, <1>5, <2>3
<1>8. CASE Labels(f, l) # {}
  <2>1. PICK at : at = g.read_offset
    OBVIOUS
  <2>2. at \in Labels(f, l) /\ at >= 1 /\ g.write_offset = at - 1 /\ at \in 0..n
    BY <1>1, <1>5, <1>6, <1>8, <2>1
  <2>3. ~u[at].ins /\ (at > 1 => ~u[at - 1].ins)
    BY <1>1, <2>2 DEF Labels
  <2>4. at - 1 \in 0..n /\ (at - 1 > 0 => at > 1)
    BY <1>4, <2>2
  <2>5. Starts(u, at) /\ Starts(u, at - 1)
    BY <1>1, <2>2, <2>3, <2>4 DEF Starts
  <2>6. Place(g, u)
    BY <1>6, <2>1, <2>2, <2>5 DEF Place
  <2> QED
    BY <1>1, <1>5, <2>6
<1> QED
  BY <1>7, <1>8

\* A CALL is put in front of a line that has none yet.
LEMMA InsertedGood ==
  ASSUME NEW u \in Seq(Unit), UnitsGood(u), NEW w \in Nat, Starts(u, w),
         w < Len(u), ~u[w + 1].ins
  PROVE  /\ UnitsGood(InsertAt(u, w + 1, Inserted))
         /\ Starts(InsertAt(u, w + 1, Inserted), w)
         /\ Lines(InsertAt(u, w + 1, Inserted), w) = Lines(u, w)
<1>1. PICK n : n = Len(u)
  OBVIOUS
<1>2. n \in Nat /\ w < n
  BY <1>1, LenProperties
<1>3. Inserted \in Unit /\ Inserted.ins /\ Inserted.cmds = <<InsCall>>
  <2>1. InsCall \in Cmds
    BY BatchAssumption
  <2>2. <<InsCall>> \in Seq(Cmds)
    BY <2>1
  <2> QED
    BY <2>2 DEF Inserted, Unit
<1>4. w \in 0..Len(u)
  BY <1>1, <1>2
<1>12. PICK v : v = InsertAt(u, w + 1, Inserted)
  OBVIOUS
<1>5. /\ v \in Seq(Unit) /\ Len(v) = n + 1
      /\ \A i \in 1..w : v[i] = u[i]
      /\ v[w + 1] = Inserted
      /\ \A i \in (w + 1)..n : v[i + 1] = u[i]
  <2>1. v \in Seq(Unit) /\ PutAt(v, u, w, Inserted)
    BY <1>3, <1>4, <1>12, InsertedAt
  <2> QED
    BY <1>1, <2>1 DEF PutAt
<1>6. \A k \in 1..n : u[k].ins => u[k].cmds = <<InsCall>> /\ k < n /\ ~u[k + 1].ins
  BY <1>1 DEF UnitsGood
<1>7. w > 0 => ~u[w].ins
  BY DEF Starts
<1>8. ASSUME NEW k \in 1..(n + 1), v[k].ins
      PROVE  v[k].cmds = <<InsCall>> /\ k < n + 1 /\ ~v[k + 1].ins
  <2>1. CASE k < w
    <3>1. k \in 1..w /\ k + 1 \in 1..w /\ k \in 1..n /\ k < n + 1
      BY <1>2, <2>1
    <3>2. v[k] = u[k] /\ v[k + 1] = u[k + 1]
      BY <1>5, <3>1
    <3> QED
      BY <1>6, <1>8, <3>1, <3>2
  <2>2. CASE k = w
    <3>1. w \in 1..w /\ w > 0
      BY <2>2
    <3>2. v[w] = u[w]
      BY <1>5, <3>1
    <3> QED
      BY <1>7, <1>8, <2>2, <3>1, <3>2
  <2>3. CASE k = w + 1
    <3>1. w + 1 \in (w + 1)..n /\ k < n + 1
      BY <1>2, <2>3
    <3>2. v[(w + 1) + 1] = u[w + 1]
      BY <1>5, <3>1
    <3> QED
      BY <1>3, <1>5, <2>3, <3>1, <3>2
  <2>4. CASE k > w + 1
    <3>1. PICK j : j = k - 1
      OBVIOUS
    <3>2. /\ k = j + 1 /\ j \in (w + 1)..n /\ j \in 1..n
          /\ j < n => /\ j + 1 \in (w + 1)..n /\ k < n + 1
      BY <1>2, <2>4, <3>1
    <3>3. v[j + 1] = u[j]
      BY <1>5, <3>2
    <3>4. u[j].cmds = <<InsCall>> /\ j < n /\ ~u[j + 1].ins
      BY <1>6, <1>8, <3>2, <3>3
    <3>5. v[(j + 1) + 1] = u[j + 1]
      BY <1>5, <3>2, <3>4
    <3> QED
      BY <3>2, <3>3, <3>4, <3>5
  <2>5. k < w \/ k = w \/ k = w + 1 \/ k > w + 1
    OBVIOUS
  <2> QED
    BY <2>1, <2>2, <2>3, <2>4, <2>5
<1>9. UnitsGood(v)
  BY <1>5, <1>8 DEF UnitsGood
<1>10. Starts(v, w)
  <2>1. w \in 0..(n + 1) /\ (w > 0 => w \in 1..w)
    BY <1>2
  <2> QED
    BY <1>5, <1>7, <2>1 DEF Starts
<1>11. Lines(v, w) = Lines(u, w)
  <2>1. w <= Len(u) /\ w <= Len(v)
    BY <1>1, <1>2, <1>5
  <2> QED
    BY <1>5, <2>1, LinesSame
<1> QED
  BY <1>9, <1>10, <1>11, <1>12

-----------------------------------------------------------------------------
(* The lines that are carried out, where no file uses GOSUB. *)

\* The frame is where it was, or has been ended.
SameFrame(g, fr) ==
    /\ g.name = fr.name /\ g.write_offset = fr.write_offset
    /\ g.line_number = fr.line_number /\ g.read_offset \in {fr.read_offset, Ended}

\* How many of the frames have read the line that they carry out: all, unless
\* the innermost one is between two lines.
Known(s, frames, r) ==
    IF r # "abort" /\ s # <<>> /\ Last(s).kind \notin {"batchcli", "batch"}
      THEN Len(frames) ELSE Len(frames) - 1

FramesPlaced(tx, frames, n) ==
    /\ \A f \in Files : UnitsGood(tx[f])
    /\ \A i \in 1..Len(frames) : Place(frames[i], tx[frames[i].name])
    /\ \A i \in 1..n : OnLine(frames[i], tx[frames[i].name])

\* What an activation has still to run stands in the line that frame d is on.
RunFrom(tx, frames, d, e) ==
    d >= 1 =>
       /\ e.kind = "command" =>
            \A i \in 1..Len(e.rest) : MayRun(frames[d], tx[frames[d].name], e.rest[i])
       /\ e.kind = "for" => MayRun(frames[d], tx[frames[d].name], e.body)

StackServed(tx, frames, s, n) ==
    \A k \in 1..Len(s) :
       /\ s[k].kind # "gosub"
       /\ s[k].kind = "batchcli" => k > 1 /\ s[k - 1].kind = "batch"
       /\ Batches(s, k) <= n => RunFrom(tx, frames, Batches(s, k), s[k])

LineParts(tx, frames, s, r) ==
    /\ FramesPlaced(tx, frames, Known(s, frames, r))
    /\ StackServed(tx, frames, s, Known(s, frames, r))

LineInv == NoGosub => LineParts(text, frame, stack, rv)

\* Every frame is where it was, or at another place of its file.
LEMMA FramesMoved ==
  ASSUME NEW tx, NEW ty, NEW frames, NEW gs, NEW n, NEW m,
         FramesPlaced(tx, frames, n),
         \A f \in Files : UnitsGood(ty[f]),
         \A i \in 1..m : i \in 1..Len(gs),
         \A i \in 1..Len(gs) :
            \/ /\ i \in 1..Len(frames) /\ SameFrame(gs[i], frames[i])
               /\ ty[frames[i].name] = tx[frames[i].name]
               /\ i \in 1..m => i \in 1..n
            \/ /\ Place(gs[i], ty[gs[i].name])
               /\ i \in 1..m => OnLine(gs[i], ty[gs[i].name])
  PROVE  FramesPlaced(ty, gs, m)
<1>1. ASSUME NEW i \in 1..Len(gs)
      PROVE  /\ Place(gs[i], ty[gs[i].name])
             /\ i \in 1..m => OnLine(gs[i], ty[gs[i].name])
  <2>1. CASE /\ i \in 1..Len(frames) /\ SameFrame(gs[i], frames[i])
             /\ ty[frames[i].name] = tx[frames[i].name]
             /\ i \in 1..m => i \in 1..n
    <3>1. Place(frames[i], tx[frames[i].name])
      BY <2>1 DEF FramesPlaced
    <3>2. i \in 1..m => OnLine(frames[i], tx[frames[i].name])
      BY <2>1 DEF FramesPlaced
    <3>3. PICK u : u = tx[frames[i].name] /\ u = ty[gs[i].name]
      BY <2>1 DEF SameFrame
    <3>4. Place(gs[i], u)
      BY <2>1, <3>1, <3>3 DEF SameFrame, Place
    <3>5. i \in 1..m => OnLine(gs[i], u)
      BY <2>1, <3>2, <3>3 DEF SameFrame, OnLine
    <3> QED
      BY <3>3, <3>4, <3>5
  <2> QED
    BY <2>1
<1> QED
  BY <1>1 DEF FramesPlaced

\* The frames that are on a line stay there.
LEMMA ServedStays ==
  ASSUME NEW tx, NEW ty, NEW frames, NEW gs, NEW s, NEW n \in Int, NEW m \in Int,
         Len(s) \in Nat, StackServed(tx, frames, s, n), m <= n,
         \A d \in 1..m : /\ gs[d].name = frames[d].name
                         /\ gs[d].write_offset = frames[d].write_offset
                         /\ ty[frames[d].name] = tx[frames[d].name]
  PROVE  StackServed(ty, gs, s, m)
<1>1. ASSUME NEW k \in 1..Len(s), Batches(s, k) <= m
      PROVE  RunFrom(ty, gs, Batches(s, k), s[k])
  <2>1. PICK d : d = Batches(s, k)
    OBVIOUS
  <2>2. d \in Nat /\ d <= n /\ (d >= 1 => d \in 1..m)
    <3>1. k \in Nat
      OBVIOUS
    <3>2. d \in Nat
      BY <2>1, <3>1, BatchesCount
    <3> QED
      BY <1>1, <2>1, <3>2
  <2>3. RunFrom(tx, frames, d, s[k])
    BY <2>1, <2>2 DEF StackServed
  <2>4. ASSUME d >= 1, NEW c, MayRun(frames[d], tx[frames[d].name], c)
        PROVE  MayRun(gs[d], ty[gs[d].name], c)
    <3>1. /\ gs[d].name = frames[d].name
          /\ gs[d].write_offset = frames[d].write_offset
          /\ ty[frames[d].name] = tx[frames[d].name]
      BY <2>2, <2>4
    <3> QED
      BY <2>4, <3>1 DEF MayRun
  <2> QED
    BY <2>1, <2>3, <2>4 DEF RunFrom
<1> QED
  BY <1>1 DEF StackServed

\* Activations return, or have less to do.
LEMMA ServedLess ==
  ASSUME NEW tx, NEW frames, NEW n \in Int, NEW s, NEW t,
         Len(s) \in Nat, Len(t) \in Nat, Len(t) <= Len(s),
         StackServed(tx, frames, s, n),
         \A k \in 1..Len(t) :
            \/ t[k] = s[k]
            \/ /\ t[k].kind = s[k].kind /\ t[k].kind \in {"command", "for"}
               /\ t[k].kind = "command" =>
                    \A i \in 1..Len(t[k].rest) :
                      \E j \in 1..Len(s[k].rest) : t[k].rest[i] = s[k].rest[j]
               /\ t[k].kind = "for" => t[k].body = s[k].body
  PROVE  StackServed(tx, frames, t, n)
<1>1. \A k \in 1..Len(t) : t[k].kind = s[k].kind
  OBVIOUS
<1>2. ASSUME NEW k \in 1..Len(t)
      PROVE  /\ t[k].kind # "gosub"
             /\ t[k].kind = "batchcli" => k > 1 /\ t[k - 1].kind = "batch"
             /\ Batches(t, k) <= n => RunFrom(tx, frames, Batches(t, k), t[k])
  <2>1. k \in Nat /\ k \in 1..Len(s) /\ \A j \in 1..k : j \in 1..Len(t)
    OBVIOUS
  <2>2. Batches(t, k) = Batches(s, k)
    BY <1>1, <2>1, BatchesSame
  <2>3. /\ s[k].kind # "gosub"
        /\ s[k].kind = "batchcli" => k > 1 /\ s[k - 1].kind = "batch"
        /\ Batches(s, k) <= n => RunFrom(tx, frames, Batches(s, k), s[k])
    BY <2>1 DEF StackServed
  <2>4. k > 1 => k - 1 \in 1..Len(t)
    OBVIOUS
  <2>5. PICK d : d = Batches(s, k)
    OBVIOUS
  <2>6. RunFrom(tx, frames, d, s[k]) => RunFrom(tx, frames, d, t[k])
    BY DEF RunFrom
  <2> QED
    BY <1>1, <2>2, <2>3, <2>4, <2>5, <2>6
<1> QED
  BY <1>2 DEF StackServed

\* An activation more.
LEMMA ServedMore ==
  ASSUME NEW tx, NEW frames, NEW n \in Int, NEW s, NEW t, NEW e,
         Len(s) \in Nat, Len(t) = Len(s) + 1,
         StackServed(tx, frames, s, n),
         \A k \in 1..Len(s) : t[k] = s[k],
         t[Len(s) + 1] = e, e.kind # "gosub",
         e.kind = "batchcli" => Len(s) >= 1 /\ s[Len(s)].kind = "batch",
         Batches(t, Len(s) + 1) <= n => RunFrom(tx, frames, Batches(t, Len(s) + 1), e)
  PROVE  StackServed(tx, frames, t, n)
<1>1. PICK h \in Nat : h = Len(s)
  OBVIOUS
<1>2. ASSUME NEW k \in 1..(h + 1)
      PROVE  /\ t[k].kind # "gosub"
             /\ t[k].kind = "batchcli" => k > 1 /\ t[k - 1].kind = "batch"
             /\ Batches(t, k) <= n => RunFrom(tx, frames, Batches(t, k), t[k])
  <2>1. CASE k \in 1..h
    <3>1. k \in Nat /\ \A j \in 1..k : j \in 1..h
      BY <2>1
    <3>2. Batches(t, k) = Batches(s, k)
      BY <1>1, <3>1, BatchesSame
    <3>3. k > 1 => k - 1 \in 1..h
      BY <2>1
    <3>4. /\ s[k].kind # "gosub"
          /\ s[k].kind = "batchcli" => k > 1 /\ s[k - 1].kind = "batch"
          /\ Batches(s, k) <= n => RunFrom(tx, frames, Batches(s, k), s[k])
      BY <1>1, <2>1 DEF StackServed
    <3> QED
      BY <1>1, <2>1, <3>2, <3>3, <3>4
  <2>2. CASE k = h + 1
    <3>1. h >= 1 => h \in 1..h /\ k - 1 = h /\ k > 1
      BY <2>2
    <3> QED
      BY <1>1, <2>2, <3>1
  <2>3. k \in 1..h \/ k = h + 1
    OBVIOUS
  <2> QED
    BY <2>1, <2>2, <2>3
<1> QED
  BY <1>1, <1>2 DEF StackServed

\* All of them or one less.
LEMMA KnownBound ==
  ASSUME NEW s, NEW frames, NEW r, Len(frames) \in Nat
  PROVE  /\ Known(s, frames, r) \in Int /\ Known(s, frames, r) <= Len(frames)
         /\ Len(frames) - 1 <= Known(s, frames, r)
         /\ \A i \in 1..Known(s, frames, r) : i \in 1..Len(frames)
<1>1. PICK n \in Nat : n = Len(frames)
  OBVIOUS
<1>2. Known(s, frames, r) = n \/ Known(s, frames, r) = n - 1
  BY <1>1 DEF Known
<1>3. n \in Int /\ n - 1 \in Int /\ n - 1 <= n /\ n <= n
      /\ \A i \in 1..(n - 1) : i \in 1..n
  OBVIOUS
<1> QED
  BY <1>1, <1>2, <1>3

\* No frame is on a line that was not on one before.
LEMMA LineStep ==
  ASSUME NEW tx, NEW frames, NEW s, NEW r, NEW ty, NEW gs, NEW t, NEW q,
         Len(frames) \in Nat, Len(gs) \in Nat, Len(t) \in Nat,
         LineParts(tx, frames, s, r),
         Known(t, gs, q) <= Known(s, frames, r),
         \A f \in Files : UnitsGood(ty[f]),
         StackServed(tx, frames, t, Known(s, frames, r)),
         \A i \in 1..Len(gs) :
            \/ /\ i \in 1..Len(frames) /\ SameFrame(gs[i], frames[i])
               /\ ty[frames[i].name] = tx[frames[i].name]
            \/ Place(gs[i], ty[gs[i].name]) /\ ~(i <= Known(t, gs, q))
  PROVE  LineParts(ty, gs, t, q)
<1>1. PICK n \in Int, m \in Int : n = Known(s, frames, r) /\ m = Known(t, gs, q)
  BY KnownBound
<1>2. m <= n /\ \A i \in 1..m : i \in 1..n /\ i <= m
  BY <1>1
<1>3. \A i \in 1..m : i \in 1..Len(gs)
  BY <1>1, KnownBound
<1>4. FramesPlaced(tx, frames, n)
  BY <1>1 DEF LineParts
<1>5. ASSUME NEW i \in 1..Len(gs)
      PROVE  \/ /\ i \in 1..Len(frames) /\ SameFrame(gs[i], frames[i])
                /\ ty[frames[i].name] = tx[frames[i].name]
                /\ i \in 1..m => i \in 1..n
             \/ /\ Place(gs[i], ty[gs[i].name])
                /\ i \in 1..m => OnLine(gs[i], ty[gs[i].name])
  BY <1>1, <1>2
<1>6. FramesPlaced(ty, gs, m)
  BY <1>3, <1>4, <1>5, FramesMoved
<1>7. ASSUME NEW d \in 1..m
      PROVE  /\ gs[d].name = frames[d].name
             /\ gs[d].write_offset = frames[d].write_offset
             /\ ty[frames[d].name] = tx[frames[d].name]
  BY <1>1, <1>2, <1>3 DEF SameFrame
<1>8. StackServed(ty, gs, t, m)
  <2>1. StackServed(tx, frames, t, n)
    BY <1>1
  <2> QED
    BY <1>2, <1>7, <2>1, ServedStays
<1> QED
  BY <1>1, <1>6, <1>8 DEF LineParts

\* What it needs of the types.
LEMMA Lengths ==
  ASSUME BatInv
  PROVE  Len(frame) \in Nat /\ Len(stack) \in Nat
BY LenProperties DEF BatInv, FramesSane, StackSane

\* The innermost frame is another one.
LEMMA TopFrame ==
  ASSUME BatInv, frame # <<>>, NEW fr \in Frame
  PROVE  /\ Len(frame) \in Nat \ {0} /\ bframe = frame[Len(frame)]
         /\ Len(WithFrame(fr)) = Len(frame)
         /\ \A i \in 1..(Len(frame) - 1) : WithFrame(fr)[i] = frame[i]
         /\ WithFrame(fr)[Len(frame)] = fr
<1>1. frame \in Seq(Frame)
  BY DEF BatInv, FramesSane
<1>2. /\ Len(frame) \in Nat \ {0} /\ Len(Append(Front(frame), fr)) = Len(frame)
      /\ \A i \in 1..(Len(frame) - 1) : Append(Front(frame), fr)[i] = frame[i]
      /\ Append(Front(frame), fr)[Len(frame)] = fr
  BY <1>1, Retopped
<1>3. bframe = frame[Len(frame)]
  BY <1>1, Popped DEF bframe
<1> QED
  BY <1>2, <1>3 DEF WithFrame

\* All frames are where they were, the innermost one too or at another place.
LEMMA TopMoved ==
  ASSUME BatInv, frame # <<>>, NEW fr \in Frame, NEW tx, NEW m,
         \A i \in 1..(Len(frame) - 1) : tx[frame[i].name] = text[frame[i].name],
         \/ SameFrame(fr, bframe) /\ tx[bframe.name] = text[bframe.name]
         \/ Place(fr, tx[fr.name]) /\ ~(Len(frame) <= m)
  PROVE  \A i \in 1..Len(WithFrame(fr)) :
            \/ /\ i \in 1..Len(frame) /\ SameFrame(WithFrame(fr)[i], frame[i])
               /\ tx[frame[i].name] = text[frame[i].name]
            \/ Place(WithFrame(fr)[i], tx[WithFrame(fr)[i].name]) /\ ~(i <= m)
<1>1. PICK n \in Nat : n = Len(frame)
  BY TopFrame
<1>2. /\ bframe = frame[n] /\ Len(WithFrame(fr)) = n
      /\ \A i \in 1..(n - 1) : WithFrame(fr)[i] = frame[i]
      /\ WithFrame(fr)[n] = fr
  BY <1>1, TopFrame
<1>3. ASSUME NEW i \in 1..n
      PROVE  \/ /\ i \in 1..n /\ SameFrame(WithFrame(fr)[i], frame[i])
                /\ tx[frame[i].name] = text[frame[i].name]
             \/ Place(WithFrame(fr)[i], tx[WithFrame(fr)[i].name]) /\ ~(i <= m)
  <2>1. CASE i = n
    BY <1>1, <1>2, <2>1
  <2>2. CASE i # n
    <3>1. i \in 1..(n - 1)
      BY <2>2
    <3>2. SameFrame(frame[i], frame[i])
      BY DEF SameFrame
    <3> QED
      BY <1>1, <1>2, <3>1, <3>2
  <2> QED
    BY <2>1, <2>2
<1> QED
  BY <1>1, <1>2, <1>3

\* All frames are ended.
LEMMA EndedStay ==
  ASSUME BatInv, NEW gs,
         gs = [i \in DOMAIN frame |-> [frame[i] EXCEPT !.read_offset = Ended]]
  PROVE  /\ Len(gs) = Len(frame)
         /\ \A i \in 1..Len(gs) : /\ i \in 1..Len(frame) /\ SameFrame(gs[i], frame[i])
                                  /\ gs[i].start_line = frame[i].start_line
                                  /\ gs[i].end_line = frame[i].end_line
<1>1. FramesSane(frame, text)
  BY DEF BatInv
<1>2. Len(gs) = Len(frame)
  BY <1>1, FramesEnded
<1>3. frame \in Seq(Frame) /\ DOMAIN frame = 1..Len(frame)
  BY <1>1, LenProperties DEF FramesSane
<1>4. ASSUME NEW i \in 1..Len(frame)
      PROVE  /\ SameFrame(gs[i], frame[i])
             /\ gs[i].start_line = frame[i].start_line
             /\ gs[i].end_line = frame[i].end_line
  <2>1. PICK g : g = frame[i]
    OBVIOUS
  <2>2. g \in Frame
    BY <1>3, <2>1, ElementOfSeq
  <2>3. gs[i] = [g EXCEPT !.read_offset = Ended]
    BY <1>3, <2>1
  <2>4. PICK h : h = [g EXCEPT !.read_offset = Ended]
    OBVIOUS
  <2>5. /\ h.name = g.name /\ h.write_offset = g.write_offset
        /\ h.line_number = g.line_number /\ h.read_offset = Ended
        /\ h.start_line = g.start_line /\ h.end_line = g.end_line
    BY <2>2, <2>4 DEF Frame
  <2> QED
    BY <2>1, <2>3, <2>4, <2>5 DEF SameFrame
<1> QED
  BY <1>2, <1>4

\* A command that is carried out stands in the line that its file is on.
LEMMA OnTheLine ==
  ASSUME BatInv, LineParts(text, frame, stack, rv), AtCommand, Len(stack) >= 3
  PROVE  /\ Known(stack, frame, rv) = Len(frame)
         /\ frame # <<>> /\ bframe \in Frame
         /\ Place(bframe, text[bframe.name]) /\ OnLine(bframe, text[bframe.name])
         /\ MayRun(bframe, text[bframe.name], Cur)
         /\ Batches(stack, Len(stack)) = Len(frame)
<1>1. stack # <<>> /\ Top.kind = "command" /\ rv = "run" /\ Cur = Top.rest[1]
      /\ Top.rest \in Seq(Cmds) /\ Top.rest # <<>>
  BY Carrying DEF AtCommand
<1>2. Known(stack, frame, rv) = Len(frame)
  BY <1>1 DEF Known, Top
<1>3. frame # <<>> /\ Len(frame) \in Nat \ {0} /\ bframe = frame[Len(frame)]
      /\ bframe \in Frame
  BY Framed, Lengths
<1>4. Len(frame) \in 1..Len(frame)
  BY <1>3
<1>5. FramesPlaced(text, frame, Len(frame)) /\ StackServed(text, frame, stack, Len(frame))
  BY <1>2 DEF LineParts
<1>6. Place(bframe, text[bframe.name]) /\ OnLine(bframe, text[bframe.name])
  BY <1>3, <1>4, <1>5 DEF FramesPlaced
<1>7. Batches(stack, Len(stack)) = Len(frame)
  BY DEF BatInv
<1>8. Len(stack) \in 1..Len(stack) /\ Top = stack[Len(stack)]
  BY <1>1, Running
<1>9. RunFrom(text, frame, Len(frame), Top)
  BY <1>3, <1>5, <1>7, <1>8 DEF StackServed
<1>10. Len(Top.rest) \in Nat /\ Len(Top.rest) > 0
  BY <1>1, LenProperties, EmptySeq
<1>11. 1 \in 1..Len(Top.rest) /\ Len(frame) >= 1
  BY <1>3, <1>10
<1>12. MayRun(bframe, text[bframe.name], Cur)
  BY <1>1, <1>3, <1>9, <1>11 DEF RunFrom
<1> QED
  BY <1>2, <1>3, <1>6, <1>7, <1>12

\* What is left of a line stands in it too.
LEMMA RestServed ==
  ASSUME BatInv, LineParts(text, frame, stack, rv), AtCommand
  PROVE  StackServed(text, frame, Rest, Known(stack, frame, rv))
<1>1. PICK n \in Int : n = Known(stack, frame, rv)
  BY Lengths, KnownBound
<1>2. StackServed(text, frame, stack, n)
  BY <1>1 DEF LineParts
<1>3. PICK m \in Nat : m = Len(stack)
  BY Lengths
<1>4. /\ Len(Rest) = m /\ m # 0
      /\ \A i \in 1..(m - 1) : Rest[i] = stack[i]
      /\ Rest[m] = [kind |-> "command", rest |-> Tail(Top.rest)]
      /\ Top = stack[m] /\ Top.kind = "command"
      /\ Top.rest \in Seq(Cmds) /\ Top.rest # <<>>
  BY <1>3, Carrying, Running
<1>5. PICK a, l : a = Top.rest /\ l = Len(a)
  OBVIOUS
<1>6. /\ a \in Seq(Cmds) /\ l \in Nat /\ Len(Tail(a)) = l - 1
      /\ \A i \in 1..(l - 1) : Tail(a)[i] = a[i + 1]
  <2>1. a \in Seq(Cmds) /\ a # <<>> /\ l \in Nat
    BY <1>4, <1>5, LenProperties
  <2>2. Len(Tail(a)) = Len(a) - 1 /\ \A i \in 1..Len(Tail(a)) : Tail(a)[i] = a[i + 1]
    BY <2>1, HeadTailProperties
  <2> QED
    BY <1>5, <2>1, <2>2
<1>7. ASSUME NEW k \in 1..m
      PROVE  \/ Rest[k] = stack[k]
             \/ /\ Rest[k].kind = stack[k].kind /\ Rest[k].kind \in {"command", "for"}
                /\ Rest[k].kind = "command" =>
                     \A i \in 1..Len(Rest[k].rest) :
                       \E j \in 1..Len(stack[k].rest) : Rest[k].rest[i] = stack[k].rest[j]
                /\ Rest[k].kind = "for" => Rest[k].body = stack[k].body
  <2>1. CASE k # m
    <3>1. k \in 1..(m - 1)
      BY <2>1
    <3> QED
      BY <1>4, <3>1
  <2>2. CASE k = m
    <3>1. Rest[k].kind = "command" /\ Rest[k].rest = Tail(a) /\ stack[k].rest = a
          /\ stack[k].kind = "command"
      BY <1>4, <1>5, <2>2
    <3>2. ASSUME NEW i \in 1..(l - 1)
          PROVE  \E j \in 1..l : Tail(a)[i] = a[j]
      <4>1. i + 1 \in 1..l
        BY <1>6
      <4> QED
        BY <1>6, <4>1
    <3>3. \A i \in 1..Len(Tail(a)) : \E j \in 1..Len(a) : Tail(a)[i] = a[j]
      BY <1>5, <1>6, <3>2
    <3> QED
      BY <3>1, <3>3
  <2> QED
    BY <2>1, <2>2
<1>8. m <= m /\ Len(Rest) \in Nat /\ Len(stack) \in Nat /\ Len(Rest) <= Len(stack)
  BY <1>3, <1>4
<1>9. StackServed(text, frame, Rest, n)
  BY <1>2, <1>3, <1>4, <1>7, <1>8, ServedLess
<1> QED
  BY <1>1, <1>9

\* Fewer activations.
LEMMA BelowServed ==
  ASSUME BatInv, LineParts(text, frame, stack, rv), stack # <<>>
  PROVE  /\ StackServed(text, frame, Below, Known(stack, frame, rv))
         /\ Len(Below) \in Nat
<1>1. PICK n \in Int : n = Known(stack, frame, rv)
  BY Lengths, KnownBound
<1>2. StackServed(text, frame, stack, n)
  BY <1>1 DEF LineParts
<1>3. PICK m \in Nat : m = Len(stack)
  BY Lengths
<1>4. /\ m # 0 /\ Len(Below) = m - 1
      /\ \A i \in 1..(m - 1) : Below[i] = stack[i]
  BY <1>3, Running
<1>5. m - 1 \in Nat /\ m - 1 <= m
  BY <1>4
<1>6. StackServed(text, frame, Below, n)
  BY <1>2, <1>3, <1>4, <1>5, ServedLess
<1> QED
  BY <1>1, <1>4, <1>5, <1>6

-----------------------------------------------------------------------------
(* Lines: one lemma per kind of step. *)

\* An activation returns, or a command is left behind, and no frame is on a
\* line that was not on one before.
LEMMA LineOn ==
  ASSUME BatInv, BatInv', LineParts(text, frame, stack, rv), stack # <<>>,
         text' = text, Len(frame') = Len(frame),
         \A i \in 1..Len(frame') : SameFrame(frame'[i], frame[i]),
         \/ stack' \in {stack, Below}
         \/ AtCommand /\ stack' = Rest,
         \/ rv # "abort" /\ Top.kind \notin {"batchcli", "batch"}
         \/ rv' = "abort"
         \/ stack' # <<>> /\ Last(stack').kind \in {"batchcli", "batch"}
  PROVE  LineParts(text', frame', stack', rv')
<1>1. Len(frame) \in Nat /\ Len(frame') \in Nat /\ Len(stack') \in Nat
  BY Lengths
<1>2. PICK n \in Nat : n = Len(frame)
  BY <1>1
<1>3. Known(stack', frame', rv') <= Known(stack, frame, rv)
  <2>1. n \in Int /\ n - 1 \in Int /\ n - 1 <= n /\ n <= n /\ n - 1 <= n - 1
    OBVIOUS
  <2>2. Known(stack, frame, rv) \in {n, n - 1} /\ Known(stack', frame', rv') \in {n, n - 1}
    BY <1>2 DEF Known
  <2>3. CASE rv # "abort" /\ Top.kind \notin {"batchcli", "batch"}
    <3>1. Known(stack, frame, rv) = n
      BY <1>2, <2>3 DEF Known, Top
    <3> QED
      BY <2>1, <2>2, <3>1
  <2>4. CASE \/ rv' = "abort"
             \/ stack' # <<>> /\ Last(stack').kind \in {"batchcli", "batch"}
    <3>1. Known(stack', frame', rv') = n - 1
      BY <1>2, <2>4 DEF Known
    <3> QED
      BY <2>1, <2>2, <3>1
  <2> QED
    BY <2>3, <2>4
<1>4. StackServed(text, frame, stack', Known(stack, frame, rv))
  BY RestServed, BelowServed DEF LineParts
<1>5. \A f \in Files : UnitsGood(text'[f])
  BY DEF LineParts, FramesPlaced
<1>6. ASSUME NEW i \in 1..Len(frame')
      PROVE  /\ i \in 1..Len(frame) /\ SameFrame(frame'[i], frame[i])
             /\ text'[frame[i].name] = text[frame[i].name]
  OBVIOUS
<1> QED
  BY <1>1, <1>3, <1>4, <1>5, <1>6, LineStep

\* A line ends and the innermost frame is at another place.
LEMMA LineLeft ==
  ASSUME BatInv, BatInv', LineParts(text, frame, stack, rv), AtCommand,
         frame # <<>>, Finish("abort"), NEW fr \in Frame, frame' = WithFrame(fr),
         \A f \in Files : UnitsGood(text'[f]),
         \A i \in 1..(Len(frame) - 1) : text'[frame[i].name] = text[frame[i].name],
         Place(fr, text'[fr.name])
  PROVE  LineParts(text', frame', stack', rv')
<1>1. Len(frame) \in Nat /\ Len(frame') \in Nat /\ Len(stack') \in Nat
  BY Lengths
<1>2. Len(frame') = Len(frame)
  BY TopFrame
<1>3. Known(stack', frame', rv') = Len(frame) - 1
  BY <1>2 DEF Known, Finish
<1>4. Known(stack', frame', rv') <= Known(stack, frame, rv)
  BY <1>1, <1>3, KnownBound
<1>5. StackServed(text, frame, stack', Known(stack, frame, rv))
  BY RestServed DEF Finish
<1>6. ~(Len(frame) <= Known(stack', frame', rv'))
  BY <1>1, <1>3
<1>7. PICK m : m = Known(stack', frame', rv')
  OBVIOUS
<1>8. \A i \in 1..Len(frame') :
         \/ /\ i \in 1..Len(frame) /\ SameFrame(frame'[i], frame[i])
            /\ text'[frame[i].name] = text[frame[i].name]
         \/ Place(frame'[i], text'[frame'[i].name]) /\ ~(i <= m)
  BY <1>6, <1>7, TopMoved
<1> QED
  BY <1>1, <1>4, <1>5, <1>7, <1>8, LineStep

\* A body of CALL, IF or FOR is run, on the line where it stands.
LEMMA LineEntered ==
  ASSUME BatInv, BatInv', LineParts(text, frame, stack, rv), frame # <<>>,
         Known(stack, frame, rv) = Len(frame), text' = text,
         NEW below \in Seq(Activation), StackServed(text, frame, below, Len(frame)),
         NEW body \in Cmds, MayRun(bframe, text[bframe.name], body),
         EnterCommand(bframe, below, <<body>>)
  PROVE  LineParts(text', frame', stack', rv')
<1>1. PICK n \in Nat : n = Len(frame)
  BY Lengths
<1>2. PICK e : e = [kind |-> "command", rest |-> <<body>>]
  OBVIOUS
<1>3. e \in Activation /\ e.kind = "command" /\ e.rest = <<body>>
  <2>1. <<body>> \in Seq(Cmds)
    OBVIOUS
  <2> QED
    BY <1>2, <2>1 DEF Activation
<1>4. stack' = Append(below, e) /\ rv' = "run"
  BY <1>2 DEF EnterCommand
<1>5. /\ Len(below) \in Nat /\ Len(stack') = Len(below) + 1 /\ stack' # <<>>
      /\ \A k \in 1..Len(below) : stack'[k] = below[k]
      /\ stack'[Len(below) + 1] = e /\ Last(stack') = e
  BY <1>3, <1>4, Pushed
<1>6. bframe \in Frame /\ bframe = frame[n] /\ n # 0
  <2>1. frame \in Seq(Frame)
    BY DEF BatInv, FramesSane
  <2> QED
    BY <1>1, <2>1, Popped DEF bframe
<1>7. PICK g \in Frame :
         /\ g = CountLine(bframe)
         /\ g.name = bframe.name /\ g.read_offset = bframe.read_offset
         /\ g.write_offset = bframe.write_offset
         /\ g.line_number = bframe.line_number
  BY <1>6, LineCounted
<1>8. SameFrame(g, bframe) /\ frame' = WithFrame(g)
  BY <1>7 DEF SameFrame, EnterCommand
<1>9. ASSUME NEW i \in 1..Len(frame')
      PROVE  \/ /\ i \in 1..Len(frame) /\ SameFrame(frame'[i], frame[i])
                /\ text'[frame[i].name] = text[frame[i].name]
             \/ Place(frame'[i], text'[frame'[i].name])
                  /\ ~(i <= Known(stack', frame', rv'))
  <2>1. PICK m : m = Known(stack', frame', rv')
    OBVIOUS
  <2>2. \A j \in 1..Len(frame') :
            \/ /\ j \in 1..Len(frame) /\ SameFrame(frame'[j], frame[j])
               /\ text'[frame[j].name] = text[frame[j].name]
            \/ Place(frame'[j], text'[frame'[j].name]) /\ ~(j <= m)
    BY <1>8, TopMoved
  <2> QED
    BY <2>1, <2>2
<1>10. Len(frame') \in Nat /\ Len(stack') \in Nat /\ Len(frame) \in Nat
  BY Lengths
<1>11. Known(stack', frame', rv') <= Known(stack, frame, rv)
  <2>1. Len(frame') = Len(frame)
    BY <1>8, TopFrame
  <2> QED
    BY <1>10, <2>1, KnownBound
<1>12. RunFrom(text, frame, Len(frame), e)
  <2>1. ASSUME NEW i \in 1..Len(e.rest)
        PROVE  e.rest[i] = body
    BY <1>3
  <2> QED
    BY <1>1, <1>3, <1>6, <2>1 DEF RunFrom
<1>13. Batches(stack', Len(below) + 1) = Len(frame)
  <2>1. Len(frame') = Batches(stack', Len(stack'))
    BY DEF BatInv
  <2>2. Len(frame') = Len(frame)
    BY <1>8, TopFrame
  <2> QED
    BY <1>5, <2>1, <2>2
<1>14. StackServed(text, frame, stack', n)
  <2>1. /\ Len(below) \in Nat /\ Len(stack') = Len(below) + 1
        /\ StackServed(text, frame, below, n)
        /\ \A k \in 1..Len(below) : stack'[k] = below[k]
        /\ stack'[Len(below) + 1] = e /\ e.kind # "gosub" /\ e.kind # "batchcli"
        /\ RunFrom(text, frame, Batches(stack', Len(below) + 1), e)
    BY <1>1, <1>3, <1>5, <1>12, <1>13
  <2> QED
    BY <2>1, ServedMore
<1>15. \A f \in Files : UnitsGood(text'[f])
  BY DEF LineParts, FramesPlaced
<1> QED
  BY <1>1, <1>9, <1>10, <1>11, <1>14, <1>15, LineStep

\* The line that is read is the one that its file is on.
LEMMA ServedRead ==
  ASSUME NEW tx, NEW frames, NEW n \in Nat, NEW s,
         Len(s) \in Nat, Len(s) >= 1, s[Len(s)].kind = "batchcli",
         Batches(s, Len(s)) = n, StackServed(tx, frames, s, n - 1)
  PROVE  StackServed(tx, frames, s, n)
<1>1. PICK h \in Nat : h = Len(s)
  OBVIOUS
<1>2. h > 1 /\ s[h - 1].kind = "batch"
  <2>1. h \in 1..Len(s)
    BY <1>1
  <2> QED
    BY <1>1, <2>1 DEF StackServed
<1>3. ASSUME NEW k \in 1..Len(s), Batches(s, k) <= n
      PROVE  RunFrom(tx, frames, Batches(s, k), s[k])
  <2>5. k \in Nat
    OBVIOUS
  <2>1. k \in Nat /\ Batches(s, k) \in Nat
    BY <2>5, BatchesCount
  <2>2. CASE k = h \/ k = h - 1
    <3>1. s[k].kind # "command" /\ s[k].kind # "for"
      BY <1>1, <1>2, <2>2
    <3> QED
      BY <3>1 DEF RunFrom
  <2>3. CASE k < h - 1
    <3>1. h - 1 \in Nat /\ h - 1 <= h /\ k <= h - 1
      BY <1>2, <2>3
    <3>2. Batches(s, k) < Batches(s, h - 1)
      BY <1>2, <2>1, <2>3, <3>1, BatchesGrow
    <3>3. Batches(s, h - 1) <= Batches(s, h)
      BY <3>1, BatchesGrow
    <3>4. Batches(s, h - 1) \in Nat
      BY <3>1, BatchesCount
    <3>5. Batches(s, k) <= n - 1
      BY <1>1, <2>1, <3>2, <3>3, <3>4
    <3> QED
      BY <3>5 DEF StackServed
  <2>4. k = h \/ k = h - 1 \/ k < h - 1
    BY <1>1
  <2> QED
    BY <2>2, <2>3, <2>4
<1> QED
  BY <1>3 DEF StackServed

\* A line is read: the frame is on it now.
LEMMA LineTaken ==
  ASSUME BatInv, BatInv', LineParts(text, frame, stack, rv), ReadLine
  PROVE  LineParts(text', frame', stack', rv')
<1>1. /\ stack # <<>> /\ Top.kind = "batchcli" /\ bframe.read_offset # Ended /\ ~AtEnd
      /\ text' = text
  BY DEF ReadLine, InBatchcli
<1>2. Len(stack) >= 2 /\ Top = stack[Len(stack)] /\ stack \in Seq(Activation)
  BY <1>1, Running
<1>3. PICK n \in Nat : n = Len(frame)
  BY Lengths
<1>4. bframe \in Frame /\ bframe = frame[n] /\ n # 0 /\ frame # <<>>
  BY <1>2, <1>3, Framed
<1>5. PICK f, o, u : f = bframe.name /\ o = bframe.read_offset /\ u = text[f]
  OBVIOUS
<1>6. PICK fr \in Frame :
         /\ fr = GetLine(bframe) /\ f \in Files /\ o \in Nat /\ o < Len(u)
         /\ fr.name = f /\ fr.write_offset = o
         /\ fr.read_offset = NextLine(f, o)
         /\ fr.line_number = bframe.line_number + 1
  BY <1>1, <1>2, <1>5, LineGot
<1>7. PICK g \in Frame :
         /\ g = CountLine(fr) /\ g.name = f /\ g.write_offset = o
         /\ g.read_offset = NextLine(f, o)
         /\ g.line_number = bframe.line_number + 1
  BY <1>6, LineCounted
<1>8. Known(stack, frame, rv) = n - 1
  BY <1>1, <1>3 DEF Known, Top
<1>9. /\ FramesPlaced(text, frame, n - 1) /\ StackServed(text, frame, stack, n - 1)
      /\ \A h \in Files : UnitsGood(text[h])
  BY <1>8 DEF LineParts, FramesPlaced
<1>10. Place(bframe, u)
  <2>1. n \in 1..Len(frame)
    BY <1>3, <1>4
  <2> QED
    BY <1>4, <1>5, <1>9, <2>1 DEF FramesPlaced
<1>11. Starts(u, o) /\ Lines(u, o) = bframe.line_number
  BY <1>1, <1>5, <1>10 DEF Place
<1>12. Place(g, u) /\ OnLine(g, u)
  <2>1. Starts(u, NextLine(f, o)) /\ Lines(u, NextLine(f, o)) = Lines(u, o) + 1
    BY <1>5, <1>6, <1>9, LineWhole DEF BatInv
  <2>2. bframe.line_number \in Int
    BY <1>4 DEF Frame
  <2>3. (bframe.line_number + 1) - 1 = bframe.line_number
    BY <2>2
  <2> QED
    BY <1>6, <1>7, <1>11, <2>1, <2>3 DEF Place, OnLine
<1>13. PICK c : c = Commands(f, o)
  OBVIOUS
<1>14. c = u[o + 1].cmds /\ c \in Seq(Cmds)
  <2>1. Commands(bframe.name, bframe.read_offset) \in Seq(Cmds)
    BY <1>1, <1>2, LineGot
  <2> QED
    BY <1>5, <1>13, <2>1 DEF Commands
<1>15. PICK e : e = [kind |-> "command", rest |-> c]
  OBVIOUS
<1>16. e \in Activation /\ e.kind = "command" /\ e.rest = c
  BY <1>14, <1>15 DEF Activation
<1>17. stack' = Append(stack, e) /\ rv' = "run" /\ frame' = WithFrame(g)
  BY <1>5, <1>6, <1>7, <1>13, <1>15 DEF ReadLine, EnterCommand
<1>18. /\ Len(stack) \in Nat /\ Len(stack') = Len(stack) + 1 /\ stack' # <<>>
       /\ \A k \in 1..Len(stack) : stack'[k] = stack[k]
       /\ stack'[Len(stack) + 1] = e /\ Last(stack') = e
  BY <1>2, <1>16, <1>17, Pushed
<1>19. /\ Len(frame') = n /\ frame'[n] = g
       /\ \A i \in 1..(n - 1) : frame'[i] = frame[i]
  BY <1>3, <1>4, <1>17, TopFrame
<1>20. Known(stack', frame', rv') = n
  BY <1>16, <1>17, <1>18, <1>19 DEF Known
<1>21. FramesPlaced(text, frame', n)
  <2>1. ASSUME NEW i \in 1..n
        PROVE  \/ /\ i \in 1..Len(frame) /\ SameFrame(frame'[i], frame[i])
                  /\ text[frame[i].name] = text[frame[i].name]
                  /\ i \in 1..n => i \in 1..(n - 1)
               \/ /\ Place(frame'[i], text[frame'[i].name])
                  /\ i \in 1..n => OnLine(frame'[i], text[frame'[i].name])
    <3>1. CASE i = n
      BY <1>5, <1>7, <1>12, <1>19, <3>1
    <3>2. CASE i # n
      <4>1. i \in 1..(n - 1)
        BY <3>2
      <4>2. SameFrame(frame[i], frame[i])
        BY DEF SameFrame
      <4> QED
        BY <1>3, <1>19, <4>1, <4>2
    <3> QED
      BY <3>1, <3>2
  <2>2. \A i \in 1..n : i \in 1..Len(frame')
    BY <1>19
  <2> QED
    BY <1>9, <1>19, <2>1, <2>2, FramesMoved
<1>22. StackServed(text, frame', stack, n)
  <2>1. Batches(stack, Len(stack)) = n
    BY <1>3 DEF BatInv
  <2>2. n - 1 \in Int /\ n - 1 <= n - 1
    BY <1>3
  <2>3. ASSUME NEW d \in 1..(n - 1)
        PROVE  /\ frame'[d].name = frame[d].name
               /\ frame'[d].write_offset = frame[d].write_offset
               /\ text[frame[d].name] = text[frame[d].name]
    BY <1>19
  <2>4. StackServed(text, frame', stack, n - 1)
    BY <1>9, <1>18, <2>2, <2>3, ServedStays
  <2> QED
    BY <1>1, <1>2, <1>18, <2>1, <2>4, ServedRead
<1>23. RunFrom(text, frame', n, e)
  <2>1. ASSUME NEW i \in 1..Len(c)
        PROVE  MayRun(g, u, c[i])
    <3>1. i \in DOMAIN c /\ c[i] \in Cmds
      BY <1>14, ElementOfSeq, LenProperties
    <3>2. c[i] \in Within[c[i]]
      BY <3>1, BatchAssumption
    <3> QED
      BY <1>7, <1>14, <3>1, <3>2 DEF MayRun
  <2> QED
    BY <1>5, <1>7, <1>16, <1>19, <2>1 DEF RunFrom
<1>24. StackServed(text, frame', stack', n)
  <2>1. Batches(stack', Len(stack) + 1) = n
    <3>1. Len(frame') = Batches(stack', Len(stack'))
      BY DEF BatInv
    <3> QED
      BY <1>18, <1>19, <3>1
  <2>2. /\ n \in Int /\ Len(stack) \in Nat /\ Len(stack') = Len(stack) + 1
        /\ \A k \in 1..Len(stack) : stack'[k] = stack[k]
        /\ stack'[Len(stack) + 1] = e /\ e.kind # "gosub" /\ e.kind # "batchcli"
        /\ RunFrom(text, frame', Batches(stack', Len(stack) + 1), e)
    BY <1>16, <1>18, <1>23, <2>1
  <2> QED
    BY <1>22, <2>2, ServedMore
<1> QED
  BY <1>1, <1>20, <1>21, <1>24 DEF LineParts

\* What a command runs stands in the line where it stands.
LEMMA BodyInLine ==
  ASSUME NEW u \in Seq(Unit), NEW fr \in Frame, OnLine(fr, u),
         NEW c \in Cmds, Op[c] \in {"call", "if", "for"}, MayRun(fr, u, c)
  PROVE  MayRun(fr, u, Body[c])
<1>1. PICK w, n : w = fr.write_offset /\ n = Len(u)
  OBVIOUS
<1>2. w \in Nat /\ n \in Nat /\ w < n
  BY <1>1, LenProperties DEF Frame, OnLine
<1>3. w + 1 \in 1..n
  BY <1>2
<1>4. u[w + 1] \in Unit
  BY <1>1, <1>3, ElementOfSeq
<1>5. PICK a : a = u[w + 1].cmds
  OBVIOUS
<1>6. a \in Seq(Cmds)
  BY <1>4, <1>5 DEF Unit
<1>7. PICK i \in DOMAIN a : c \in Within[a[i]]
  BY <1>1, <1>5 DEF MayRun
<1>8. a[i] \in Cmds
  <2>1. i \in 1..Len(a)
    BY <1>6, <1>7, LenProperties
  <2> QED
    BY <1>6, <2>1, ElementOfSeq
<1>9. Within[c] \subseteq Within[a[i]]
  BY <1>7, <1>8, BatchAssumption
<1>10. Body[c] \in Within[c]
  <2>1. Body[c] \in Cmds
    BY BatchAssumption
  <2>2. Body[c] \in Within[Body[c]]
    BY <2>1, BatchAssumption
  <2>3. Within[Body[c]] \subseteq Within[c]
    BY BatchAssumption
  <2> QED
    BY <2>2, <2>3
<1> QED
  BY <1>1, <1>5, <1>7, <1>9, <1>10 DEF MayRun

\* CALL, IF, FOR.
LEMMA BodyLined ==
  ASSUME BatInv, BatInv', LineParts(text, frame, stack, rv), AtCommand,
         Len(stack) >= 3, Op[Cur] \in {"call", "if", "for"},
         NEW a \in Activation, a.kind \in {"call", "if", "for"},
         a.kind = "for" => a.body = Body[Cur],
         RunBody(a, Body[Cur]), text' = text
  PROVE  LineParts(text', frame', stack', rv')
<1>1. /\ Known(stack, frame, rv) = Len(frame) /\ frame # <<>> /\ bframe \in Frame
      /\ OnLine(bframe, text[bframe.name])
      /\ MayRun(bframe, text[bframe.name], Cur)
      /\ Batches(stack, Len(stack)) = Len(frame)
  BY OnTheLine
<1>2. Cur \in Cmds
  BY Carrying
<1>3. text[bframe.name] \in Seq(Unit) /\ Body[Cur] \in Cmds
  <2>1. bframe.name \in Files
    BY <1>1 DEF Frame
  <2> QED
    BY <1>2, <2>1, BatchAssumption DEF BatInv
<1>4. MayRun(bframe, text[bframe.name], Body[Cur])
  <2>1. PICK u : u = text[bframe.name]
    OBVIOUS
  <2>2. u \in Seq(Unit) /\ OnLine(bframe, u) /\ MayRun(bframe, u, Cur)
    BY <1>1, <1>3, <2>1
  <2>3. MayRun(bframe, u, Body[Cur])
    BY <1>1, <1>2, <2>2, BodyInLine
  <2> QED
    BY <2>1, <2>3
<1>5. PICK n \in Nat : n = Len(frame)
  BY Lengths
<1>6. n # 0 /\ bframe = frame[n]
  BY <1>1, <1>5, TopFrame
<1>7. StackServed(text, frame, Rest, n)
  BY <1>1, <1>5, RestServed
<1>8. /\ StackSane(Rest) /\ Len(Rest) = Len(stack) /\ Len(stack) \in Nat
      /\ Batches(Rest, Len(Rest)) = n
  BY <1>1, <1>5, RestSane, Lengths
<1>9. PICK b : b = Append(Rest, a)
  OBVIOUS
<1>10. /\ b \in Seq(Activation) /\ Len(Rest) \in Nat /\ Len(b) = Len(Rest) + 1
       /\ \A k \in 1..Len(Rest) : b[k] = Rest[k]
       /\ b[Len(Rest) + 1] = a
  <2>1. Rest \in Seq(Activation)
    BY <1>8 DEF StackSane
  <2> QED
    BY <1>9, <2>1, Pushed
<1>11. Batches(b, Len(Rest) + 1) = n
  <2>1. Len(Rest) >= 2 /\ a.kind # "batch" /\ a.kind # "gosub"
    BY <1>8
  <2>2. Batches(Append(Rest, a), Len(Append(Rest, a))) = Batches(Rest, Len(Rest))
    BY <1>8, <2>1, PushSane
  <2> QED
    BY <1>8, <1>9, <1>10, <2>2
<1>12. RunFrom(text, frame, n, a)
  BY <1>4, <1>6 DEF RunFrom
<1>13. StackServed(text, frame, b, n)
  BY <1>7, <1>10, <1>11, <1>12, ServedMore
<1>14. EnterCommand(bframe, b, <<Body[Cur]>>)
  BY <1>9 DEF RunBody
<1> QED
  BY <1>1, <1>3, <1>4, <1>5, <1>10, <1>13, <1>14, LineEntered

\* The innermost frame is where it was.
LEMMA SameTop ==
  ASSUME BatInv, frame # <<>>, NEW fr \in Frame, SameFrame(fr, bframe)
  PROVE  /\ Len(WithFrame(fr)) = Len(frame)
         /\ \A i \in 1..Len(WithFrame(fr)) : SameFrame(WithFrame(fr)[i], frame[i])
<1>1. PICK n \in Nat : n = Len(frame)
  BY Lengths
<1>2. PICK gs : gs = WithFrame(fr)
  OBVIOUS
<1>3. /\ bframe = frame[n] /\ Len(gs) = n /\ gs[n] = fr
      /\ \A i \in 1..(n - 1) : gs[i] = frame[i]
  BY <1>1, <1>2, TopFrame
<1>4. ASSUME NEW i \in 1..n
      PROVE  SameFrame(gs[i], frame[i])
  <2>1. i = n \/ i \in 1..(n - 1)
    OBVIOUS
  <2>2. SameFrame(frame[i], frame[i])
    BY DEF SameFrame
  <2> QED
    BY <1>3, <2>1, <2>2
<1> QED
  BY <1>1, <1>2, <1>3, <1>4

\* batchcli is called by batch alone.
LEMMA OnBatch ==
  ASSUME BatInv, LineParts(text, frame, stack, rv), InBatchcli
  PROVE  Below # <<>> /\ Last(Below).kind = "batch"
<1>1. PICK m \in Nat : m = Len(stack)
  BY Lengths
<1>2. /\ stack # <<>> /\ Top = stack[m] /\ Top.kind = "batchcli" /\ m >= 2
      /\ Below \in Seq(Activation) /\ Len(Below) = m - 1
      /\ \A i \in 1..(m - 1) : Below[i] = stack[i]
  BY <1>1, Running DEF InBatchcli
<1>3. m \in 1..m /\ m - 1 \in 1..(m - 1) /\ m - 1 # 0
  BY <1>2
<1>4. stack[m - 1].kind = "batch"
  BY <1>1, <1>2, <1>3 DEF LineParts, StackServed
<1>5. Below # <<>>
  BY <1>2, <1>3, EmptySeq
<1>6. Last(Below) = Below[m - 1]
  BY <1>2, <1>5, Popped
<1> QED
  BY <1>2, <1>3, <1>4, <1>5, <1>6

\* EndOfFile, CtrlC, LineDone.
LEMMA BatchcliLined ==
  ASSUME BatInv, BatInv', LineParts(text, frame, stack, rv), Batchcli \/ CtrlC
  PROVE  LineParts(text', frame', stack', rv')
<1>1. CASE ReadLine
  BY <1>1, LineTaken
<1>2. CASE EndOfFile \/ CtrlC \/ LineDone
  <2>1. InBatchcli /\ stack # <<>> /\ text' = text
    BY <1>2 DEF EndOfFile, CtrlC, LineDone, InBatchcli
  <2>2. Below # <<>> /\ Last(Below).kind = "batch"
    BY <2>1, OnBatch
  <2>3. stack' \in {stack, Below}
    BY <1>2 DEF EndOfFile, CtrlC, LineDone, Return
  <2>4. stack' # <<>> /\ Last(stack').kind \in {"batchcli", "batch"}
    BY <2>1, <2>2, <2>3 DEF InBatchcli, Top
  <2>5. /\ Len(frame') = Len(frame)
        /\ \A i \in 1..Len(frame') : SameFrame(frame'[i], frame[i])
    <3>1. CASE frame' = frame
      BY <3>1 DEF SameFrame
    <3>2. CASE frame' = [i \in DOMAIN frame |-> [frame[i] EXCEPT !.read_offset = Ended]]
      <4>1. PICK gs : gs = [i \in DOMAIN frame |-> [frame[i] EXCEPT !.read_offset = Ended]]
        OBVIOUS
      <4>2. Len(gs) = Len(frame) /\ \A i \in 1..Len(gs) : SameFrame(gs[i], frame[i])
        BY <4>1, EndedStay
      <4> QED
        BY <3>2, <4>1, <4>2
    <3>3. frame' = frame \/ frame' = [i \in DOMAIN frame |->
                                         [frame[i] EXCEPT !.read_offset = Ended]]
      BY <1>2 DEF EndOfFile, CtrlC, LineDone
    <3> QED
      BY <3>1, <3>2, <3>3
  <2> QED
    BY <2>1, <2>3, <2>4, <2>5, LineOn
<1> QED
  BY <1>1, <1>2 DEF Batchcli

\* What commands do that leave their file where it is, or end it.
LEMMA StayLined ==
  ASSUME BatInv, BatInv', LineParts(text, frame, stack, rv),
         \/ Command \/ Program \/ KillBatch \/ Iff \/ ElseOrUnknown \/ ReturnCmd
         \/ Quit \/ TooDeep
         \/ If /\ frame' = frame /\ Finish("ok")
  PROVE  LineParts(text', frame', stack', rv')
<1>1. stack # <<>> /\ text' = text
  BY DEF Command, CommandDone, Label, Skip, Program, KillBatch, Iff, ElseOrUnknown,
         ReturnCmd, Quit, TooDeep, If, Carried, AtCommand, InCommand
<1>2. CASE CommandDone
  <2>1. frame' = frame /\ stack' \in {stack, Below} /\ Top.kind = "command"
    BY <1>2 DEF CommandDone, Return, InCommand
  <2>2. rv # "abort" \/ rv' = "abort"
    BY <1>2 DEF CommandDone, Return
  <2>3. /\ Len(frame') = Len(frame)
        /\ \A i \in 1..Len(frame') : SameFrame(frame'[i], frame[i])
    BY <2>1 DEF SameFrame
  <2> QED
    BY <1>1, <2>1, <2>2, <2>3, LineOn
<1>3. CASE ~CommandDone
  <2>1. AtCommand
    BY <1>3 DEF Command, Label, Skip, Program, KillBatch, Iff, ElseOrUnknown,
         ReturnCmd, Quit, TooDeep, If, Carried
  <2>2. stack' = Below \/ stack' = Rest
    BY <1>3 DEF Command, Label, Skip, Program, KillBatch, Iff, ElseOrUnknown,
         ReturnCmd, Quit, TooDeep, Finish, Return
  <2>3. rv # "abort" /\ Top.kind \notin {"batchcli", "batch"}
    BY <2>1 DEF AtCommand, InCommand
  <2>4. /\ Len(frame') = Len(frame)
        /\ \A i \in 1..Len(frame') : SameFrame(frame'[i], frame[i])
    <3>1. CASE frame' = frame
      BY <3>1 DEF SameFrame
    <3>2. CASE ReturnCmd \/ Quit
      <4>1. PICK op \in {"return", "quit", "cancel"} : Carried(op)
        BY <3>2 DEF ReturnCmd, Quit
      <4>2. frame # <<>> /\ Len(stack) >= 3 /\ op # "batch"
        BY <4>1, CarriedOut
      <4>3. bframe \in Frame
        BY <4>2, Framed
      <4>4. PICK b : b = bframe
        OBVIOUS
      <4>5. PICK g, h : /\ g = [b EXCEPT !.gsoffset = @ - 1]
                        /\ h = [b EXCEPT !.read_offset = Ended]
        OBVIOUS
      <4>6. g \in Frame /\ h \in Frame /\ SameFrame(g, b) /\ SameFrame(h, b)
        BY <4>3, <4>4, <4>5 DEF Frame, SameFrame, Ended
      <4>7. PICK gs : gs = [i \in DOMAIN frame |-> [frame[i] EXCEPT !.read_offset = Ended]]
        OBVIOUS
      <4>8. frame' \in {frame, WithFrame(g), WithFrame(h), gs}
        BY <3>2, <4>4, <4>5, <4>7 DEF ReturnCmd, Quit
      <4>9. Len(gs) = Len(frame) /\ \A i \in 1..Len(gs) : SameFrame(gs[i], frame[i])
        BY <4>7, EndedStay
      <4>10. CASE frame' = WithFrame(g)
        BY <4>2, <4>4, <4>6, <4>10, SameTop
      <4>11. CASE frame' = WithFrame(h)
        BY <4>2, <4>4, <4>6, <4>11, SameTop
      <4> QED
        BY <3>1, <4>8, <4>9, <4>10, <4>11
    <3>3. frame' = frame \/ ReturnCmd \/ Quit
      BY <1>3 DEF Command, Label, Skip, Program, KillBatch, Iff, ElseOrUnknown, TooDeep
    <3> QED
      BY <3>1, <3>2, <3>3
  <2> QED
    BY <1>1, <2>1, <2>2, <2>3, <2>4, LineOn
<1> QED
  BY <1>2, <1>3

\* GOTO, and a batch file that takes the place of another one.
LEMMA MoveLined ==
  ASSUME BatInv, BatInv', LineParts(text, frame, stack, rv), Goto \/ Chain
  PROVE  LineParts(text', frame', stack', rv')
<1>1. AtCommand /\ text' = text /\ Finish("abort") /\ Cur \in Cmds
  BY Carrying DEF Goto, Chain, Carried
<1>2. \A f \in Files : UnitsGood(text[f])
  BY DEF LineParts, FramesPlaced
<1>3. CASE Goto
  <2>1. frame # <<>> /\ Len(stack) >= 3
    BY <1>3, CarriedOut DEF Goto
  <2>2. bframe \in Frame /\ FrameSane(bframe, text) /\ text \in [Files -> Seq(Unit)]
    BY <2>1, Framed DEF BatInv
  <2>3. PICK fr : fr = GotoLabel(bframe, Target[Cur])
    OBVIOUS
  <2>4. bframe.name \in Files
    BY <2>2 DEF Frame
  <2>5. Place(fr, text[bframe.name])
    BY <1>2, <2>2, <2>3, <2>4, LabelPlaced
  <2>6. fr \in Frame
    BY <2>2, <2>3, LabelSane DEF FrameSane
  <2>7. fr.name = bframe.name
    <3>1. PICK b : b = bframe
      OBVIOUS
    <3> QED
      BY <2>2, <2>3, <3>1 DEF GotoLabel, Frame
  <2>8. frame' = WithFrame(fr)
    BY <1>3, <2>3 DEF Goto
  <2> QED
    BY <1>1, <1>2, <2>1, <2>5, <2>6, <2>7, <2>8, LineLeft
<1>4. CASE Chain
  <2>1. Op[Cur] = "batch" /\ frame # <<>>
    BY <1>4 DEF Chain, Carried
  <2>2. PICK fr : fr = NewFrame(Target[Cur])
    OBVIOUS
  <2>3. fr \in Frame
    BY <1>1, <2>1, <2>2, NewSane DEF FrameSane, BatInv
  <2>4. fr.read_offset = 0 /\ fr.write_offset = 0 /\ fr.line_number = 0
    BY <2>2 DEF NewFrame
  <2>5. PICK u : u = text[fr.name]
    OBVIOUS
  <2>6. u \in Seq(Unit) /\ UnitsGood(u)
    BY <1>2, <2>3, <2>5 DEF Frame, BatInv
  <2>7. Starts(u, 0) /\ Lines(u, 0) = 0
    BY <2>6, EndStarts, LinesCount
  <2>8. Place(fr, u)
    BY <2>4, <2>7 DEF Place
  <2>9. frame' = WithFrame(fr)
    BY <1>4, <2>2 DEF Chain
  <2> QED
    BY <1>1, <1>2, <2>1, <2>3, <2>5, <2>8, <2>9, LineLeft
<1> QED
  BY <1>3, <1>4

\* A file is not being run further out when a CALL is inserted into it: the frames
\* there would not learn that its lines have moved.
Alone ==
    AtCommand /\ Op[Cur] = "insert" =>
        \A i \in 1..(Len(frame) - 1) : frame[i].name # bframe.name

\* What the CALL of INSERT_CMD may run.
LEMMA InsertedRuns ==
  ASSUME NEW c \in Within[InsCall]
  PROVE  Op[c] \in {"call", "batch"}
<1>1. InsCall \in Cmds /\ Body[InsCall] \in Cmds
  BY BatchAssumption
<1>2. Op[InsCall] = "call" /\ Op[Body[InsCall]] = "batch"
  BY BatchAssumption
<1>3. Within[InsCall] = {InsCall} \cup Within[Body[InsCall]]
  BY <1>1, <1>2, BatchAssumption
<1>4. Within[Body[InsCall]] = {Body[InsCall]}
  BY <1>1, <1>2, BatchAssumption
<1> QED
  BY <1>2, <1>3, <1>4

\* INSERT_CMD.
LEMMA InsertLined ==
  ASSUME BatInv, BatInv', LineParts(text, frame, stack, rv), Alone, InsertBatch
  PROVE  LineParts(text', frame', stack', rv')
<1>1. /\ AtCommand /\ stack # <<>> /\ Op[Cur] = "insert" /\ Len(stack) >= 3
      /\ frame # <<>> /\ Cur \in Cmds
  BY CarriedOut, Carrying DEF InsertBatch
<1>2. /\ bframe \in Frame /\ Place(bframe, text[bframe.name])
      /\ OnLine(bframe, text[bframe.name]) /\ MayRun(bframe, text[bframe.name], Cur)
  BY <1>1, OnTheLine
<1>3. \A f \in Files : UnitsGood(text[f])
  BY DEF LineParts, FramesPlaced
<1>4. CASE bframe.name = InsFile
  <2>1. frame' = frame /\ text' = text /\ stack' = Rest
    BY <1>4 DEF InsertBatch, Finish
  <2>2. /\ Len(frame') = Len(frame)
        /\ \A i \in 1..Len(frame') : SameFrame(frame'[i], frame[i])
    BY <2>1 DEF SameFrame
  <2>3. rv # "abort" /\ Top.kind \notin {"batchcli", "batch"}
    BY <1>1 DEF AtCommand, InCommand
  <2> QED
    BY <1>1, <2>1, <2>2, <2>3, LineOn
<1>5. CASE bframe.name # InsFile
  <2>1. PICK b, w, k, u : /\ b = bframe /\ w = b.write_offset
                          /\ k = b.line_number - 1 /\ u = text[b.name]
    OBVIOUS
  <2>2. b \in Frame /\ w \in Nat /\ k \in Int /\ b.name \in Files
    BY <1>2, <2>1 DEF Frame
  <2>3. PICK fr : fr = PlaceBack(b, w, k)
    OBVIOUS
  <2>4. /\ fr \in Frame /\ fr.name = b.name /\ fr.write_offset = w
        /\ fr.read_offset = w /\ fr.line_number = k
    <3>1. w \in Int /\ b.write_offset = w
      BY <2>1, <2>2
    <3>2. PlacedAt(PlaceBack(b, w, k), b, b.write_offset, w, k)
      BY <2>2, <3>1, Placed
    <3> QED
      BY <2>3, <3>1, <3>2 DEF PlacedAt
  <2>5. PICK v : v = InsertAt(u, w + 1, Inserted)
    OBVIOUS
  <2>6. /\ text' = [text EXCEPT ![b.name] = v] /\ frame' = WithFrame(fr)
        /\ Finish("abort")
    BY <1>5, <2>1, <2>3, <2>5 DEF InsertBatch, PlaceBack
  <2>7. text \in [Files -> Seq(Unit)] /\ u \in Seq(Unit) /\ UnitsGood(u)
    BY <1>3, <2>1, <2>2 DEF BatInv
  <2>8. Starts(u, w) /\ w < Len(u) /\ Lines(u, w) = k
    BY <1>2, <2>1 DEF Place, OnLine
  <2>9. ~u[w + 1].ins
    <3>1. SUFFICES ASSUME u[w + 1].ins
                   PROVE  FALSE
      OBVIOUS
    <3>2. w + 1 \in 1..Len(u)
      <4>1. PICK n : n = Len(u)
        OBVIOUS
      <4>2. n \in Nat /\ w < n
        BY <2>7, <2>8, <4>1, LenProperties
      <4> QED
        BY <2>2, <4>1, <4>2
    <3>3. u[w + 1].cmds = <<InsCall>>
      BY <2>7, <3>1, <3>2 DEF UnitsGood
    <3>4. PICK i \in DOMAIN u[w + 1].cmds : Cur \in Within[u[w + 1].cmds[i]]
      BY <1>2, <2>1 DEF MayRun
    <3>5. Cur \in Within[InsCall]
      BY <3>3, <3>4
    <3> QED
      BY <1>1, <3>5, InsertedRuns
  <2>10. UnitsGood(v) /\ Starts(v, w) /\ Lines(v, w) = k
    BY <2>2, <2>5, <2>7, <2>8, <2>9, InsertedGood
  <2>11. text'[b.name] = v /\ \A f \in Files : f # b.name => text'[f] = text[f]
    BY <2>2, <2>6, <2>7
  <2>12. Place(fr, v)
    BY <2>4, <2>10 DEF Place
  <2>13. \A f \in Files : UnitsGood(text'[f])
    BY <1>3, <2>10, <2>11
  <2>14. ASSUME NEW i \in 1..(Len(frame) - 1)
         PROVE  text'[frame[i].name] = text[frame[i].name]
    <3>1. frame[i].name # b.name
      BY <1>1, <2>1 DEF Alone
    <3>2. frame[i] \in Frame
      <4>1. i \in 1..Len(frame)
        BY Lengths
      <4> QED
        BY <4>1 DEF BatInv, FramesSane, FrameSane
    <3> QED
      BY <2>11, <3>1, <3>2 DEF Frame
  <2> QED
    BY <1>1, <2>4, <2>6, <2>11, <2>12, <2>13, <2>14, LineLeft
<1> QED
  BY <1>4, <1>5

\* CALL, IF and FOR, with their bodies.
LEMMA BodiesLined ==
  ASSUME BatInv, BatInv', LineParts(text, frame, stack, rv), Call \/ If \/ For
  PROVE  LineParts(text', frame', stack', rv')
<1>1. PICK op \in {"call", "if", "for"} : Carried(op)
  BY DEF Call, If, For
<1>2. AtCommand /\ Len(stack) >= 3 /\ Op[Cur] \in {"call", "if", "for"}
  BY <1>1, CarriedOut
<1>3. Body[Cur] \in Cmds
  BY <1>2, Carrying, BatchAssumption
<1>4. CASE If /\ frame' = frame /\ Finish("ok")
  BY <1>4, StayLined
<1>5. ASSUME NEW a \in Activation, a.kind \in {"call", "if", "for"},
             a.kind = "for" => a.body = Body[Cur], RunBody(a, Body[Cur]), text' = text
      PROVE  LineParts(text', frame', stack', rv')
  BY <1>2, <1>5, BodyLined
<1>6. CASE Call
  <2>1. PICK a : a = [kind |-> "call"]
    OBVIOUS
  <2>2. a \in Activation /\ a.kind = "call"
    BY <2>1 DEF Activation
  <2>3. RunBody(a, Body[Cur]) /\ text' = text
    BY <1>6, <2>1 DEF Call
  <2> QED
    BY <1>5, <2>2, <2>3
<1>7. CASE If /\ ~(frame' = frame /\ Finish("ok"))
  <2>1. PICK a : a = [kind |-> "if"]
    OBVIOUS
  <2>2. a \in Activation /\ a.kind = "if"
    BY <2>1 DEF Activation
  <2>3. RunBody(a, Body[Cur]) /\ text' = text
    BY <1>7, <2>1 DEF If
  <2> QED
    BY <1>5, <2>2, <2>3
<1>8. CASE For
  <2>1. PICK a : a = [kind |-> "for", left |-> ForItems - 1, body |-> Body[Cur]]
    OBVIOUS
  <2>2. a \in Activation /\ a.kind = "for" /\ a.body = Body[Cur]
    <3>1. ForItems - 1 \in Nat
      BY BatchAssumption
    <3> QED
      BY <1>3, <2>1, <3>1 DEF Activation
  <2>3. RunBody(a, Body[Cur]) /\ text' = text
    BY <1>8, <2>1 DEF For
  <2> QED
    BY <1>5, <2>2, <2>3
<1> QED
  BY <1>4, <1>6, <1>7, <1>8

\* The next item of a FOR.
LEMMA ForLined ==
  ASSUME BatInv, BatInv', LineParts(text, frame, stack, rv), ForNext
  PROVE  LineParts(text', frame', stack', rv')
<1>1. /\ stack # <<>> /\ Top.kind = "for" /\ rv # "abort" /\ Top.left # 0
      /\ text' = text
  BY DEF ForNext, ForBack, ForOver
<1>2. PICK m \in Nat, n \in Nat : m = Len(stack) /\ n = Len(frame)
  BY Lengths
<1>3. /\ Top \in Activation /\ Top = stack[m] /\ m >= 3
      /\ Below \in Seq(Activation) /\ Len(Below) = m - 1
      /\ \A i \in 1..(m - 1) : Below[i] = stack[i]
  BY <1>1, <1>2, Running
<1>4. frame # <<>> /\ bframe = frame[n] /\ n # 0
  BY <1>2, <1>3, Framed
<1>5. Known(stack, frame, rv) = n
  BY <1>1, <1>2 DEF Known, Top
<1>6. StackServed(text, frame, stack, n)
  BY <1>5 DEF LineParts
<1>7. Batches(stack, m) = n
  BY <1>2 DEF BatInv
<1>8. Top.left \in Nat /\ Top.body \in Cmds
  BY <1>1, <1>3 DEF Activation
<1>9. PICK t, l : t = Top /\ l = t.left - 1
  OBVIOUS
<1>10. PICK a : a = [t EXCEPT !.left = l]
  OBVIOUS
<1>11. a \in Activation /\ a.kind = "for" /\ a.body = Top.body
  <2>1. t \in [kind : {"for"}, left : Nat, body : Cmds] /\ l \in Nat
    BY <1>1, <1>3, <1>8, <1>9 DEF Activation
  <2> QED
    BY <1>9, <1>10, <2>1 DEF Activation
<1>12. PICK b : b = Append(Below, a)
  OBVIOUS
<1>13. /\ b \in Seq(Activation) /\ Len(b) = m
       /\ \A i \in 1..(m - 1) : b[i] = stack[i]
       /\ b[m] = a
  <2>1. /\ Append(Below, a) \in Seq(Activation)
        /\ Len(Append(Below, a)) = Len(Below) + 1
        /\ \A i \in 1..Len(Below) : Append(Below, a)[i] = Below[i]
        /\ Append(Below, a)[Len(Below) + 1] = a
    BY <1>3, <1>11, Pushed
  <2>2. (m - 1) + 1 = m
    OBVIOUS
  <2> QED
    BY <1>3, <1>12, <2>1, <2>2
<1>14. StackServed(text, frame, b, n)
  <2>1. ASSUME NEW k \in 1..m
        PROVE  \/ b[k] = stack[k]
               \/ /\ b[k].kind = stack[k].kind /\ b[k].kind = "for"
                  /\ b[k].body = stack[k].body
    <3>1. k = m \/ k \in 1..(m - 1)
      OBVIOUS
    <3> QED
      BY <1>1, <1>3, <1>11, <1>13, <3>1
  <2>2. \A k \in 1..Len(b) :
            \/ b[k] = stack[k]
            \/ /\ b[k].kind = stack[k].kind /\ b[k].kind \in {"command", "for"}
               /\ b[k].kind = "command" =>
                    \A i \in 1..Len(b[k].rest) :
                      \E j \in 1..Len(stack[k].rest) : b[k].rest[i] = stack[k].rest[j]
               /\ b[k].kind = "for" => b[k].body = stack[k].body
    BY <1>13, <2>1
  <2>3. /\ Len(stack) \in Nat /\ Len(b) \in Nat /\ Len(b) <= Len(stack)
        /\ n \in Int
    BY <1>2, <1>13
  <2> QED
    BY <1>6, <2>2, <2>3, ServedLess
<1>15. MayRun(bframe, text[bframe.name], Top.body)
  <2>1. m \in 1..m /\ n <= n /\ n >= 1
    BY <1>3, <1>4
  <2>2. RunFrom(text, frame, n, Top)
    BY <1>2, <1>3, <1>6, <1>7, <2>1 DEF StackServed
  <2> QED
    BY <1>1, <1>4, <2>1, <2>2 DEF RunFrom
<1>16. EnterCommand(bframe, b, <<Top.body>>)
  BY <1>9, <1>10, <1>12 DEF ForNext
<1> QED
  BY <1>1, <1>2, <1>4, <1>5, <1>8, <1>13, <1>14, <1>15, <1>16, LineEntered

\* A batch file is nested.
LEMMA NestLined ==
  ASSUME BatInv, BatInv', LineParts(text, frame, stack, rv), Nested
  PROVE  LineParts(text', frame', stack', rv')
<1>1. /\ AtCommand /\ Op[Cur] = "batch" /\ Cur \in Cmds /\ text' = text /\ rv' = "run"
      /\ stack # <<>> /\ Top.kind = "command" /\ rv = "run"
  BY Carrying DEF Nested, Carried, AtCommand
<1>2. PICK n \in Nat : n = Len(frame)
  BY Lengths
<1>3. Known(stack, frame, rv) = n
  BY <1>1, <1>2 DEF Known, Top
<1>4. PICK g : g = NewFrame(Target[Cur])
  OBVIOUS
<1>5. g \in Frame
  BY <1>1, <1>4, NewSane DEF FrameSane, BatInv
<1>6. /\ Len(frame') = n + 1 /\ frame'[n + 1] = g
      /\ \A i \in 1..n : frame'[i] = frame[i]
  <2>1. frame \in Seq(Frame) /\ frame' = Append(frame, g)
    BY <1>4 DEF Nested, BatInv, FramesSane
  <2> QED
    BY <1>2, <1>5, <2>1, Pushed
<1>7. \A f \in Files : UnitsGood(text[f])
  BY DEF LineParts, FramesPlaced
<1>8. Place(g, text[g.name])
  <2>1. g.read_offset = 0 /\ g.write_offset = 0 /\ g.line_number = 0
    BY <1>4 DEF NewFrame
  <2>2. PICK u : u = text[g.name]
    OBVIOUS
  <2>3. u \in Seq(Unit) /\ UnitsGood(u)
    BY <1>5, <1>7, <2>2 DEF Frame, BatInv
  <2>4. Starts(u, 0) /\ Lines(u, 0) = 0
    BY <2>3, EndStarts, LinesCount
  <2> QED
    BY <2>1, <2>2, <2>4 DEF Place
<1>9. PICK a, c : a = [kind |-> "batch", save |-> flags] /\ c = [kind |-> "batchcli"]
  OBVIOUS
<1>10. a \in Activation /\ a.kind = "batch" /\ c \in Activation /\ c.kind = "batchcli"
  <2>1. flags \in [iff : Int, endiff : Int, else : Int]
    BY DEF BatInv, Sane, WaitEndIff
  <2> QED
    BY <1>9, <2>1 DEF Activation
<1>11. PICK s, t : s = Append(Rest, a) /\ t = Append(s, c)
  OBVIOUS
<1>12. stack' = t
  BY <1>9, <1>11 DEF Nested
<1>13. Rest \in Seq(Activation) /\ Len(Rest) \in Nat
  BY <1>1, Carrying, LenProperties
<1>14. /\ s \in Seq(Activation) /\ Len(s) = Len(Rest) + 1
       /\ \A k \in 1..Len(Rest) : s[k] = Rest[k]
       /\ s[Len(Rest) + 1] = a
  BY <1>10, <1>11, <1>13, Pushed
<1>15. /\ t # <<>> /\ Len(s) \in Nat /\ Len(t) = Len(s) + 1
       /\ \A k \in 1..Len(s) : t[k] = s[k]
       /\ t[Len(s) + 1] = c /\ Last(t) = c
  <2>1. /\ Append(s, c) # <<>> /\ Len(s) \in Nat
        /\ Len(Append(s, c)) = Len(s) + 1
        /\ \A k \in 1..Len(s) : Append(s, c)[k] = s[k]
        /\ Append(s, c)[Len(s) + 1] = c /\ Last(Append(s, c)) = c
    BY <1>10, <1>14, Pushed
  <2> QED
    BY <1>11, <2>1, Zenon
<1>16. StackServed(text, frame, Rest, n)
  BY <1>1, <1>3, RestServed
<1>17. StackServed(text, frame, s, n)
  <2>1. RunFrom(text, frame, Batches(s, Len(Rest) + 1), a)
    BY <1>10 DEF RunFrom
  <2>2. a.kind # "gosub" /\ a.kind # "batchcli" /\ n \in Int
    BY <1>10
  <2> QED
    BY <1>13, <1>14, <1>16, <2>1, <2>2, ServedMore
<1>18. StackServed(text, frame, t, n)
  <2>1. RunFrom(text, frame, Batches(t, Len(s) + 1), c)
    BY <1>10 DEF RunFrom
  <2>2. c.kind # "gosub" /\ n \in Int
    BY <1>10
  <2>3. Len(s) >= 1 /\ s[Len(s)].kind = "batch"
    BY <1>10, <1>13, <1>14
  <2> QED
    BY <1>15, <1>17, <2>1, <2>2, <2>3, ServedMore
<1>19. Known(stack', frame', rv') = n
  <2>1. Known(stack', frame', rv') = Len(frame') - 1
    BY <1>10, <1>12, <1>15 DEF Known
  <2> QED
    BY <1>6, <2>1
<1>20. ASSUME NEW i \in 1..Len(frame')
       PROVE  \/ /\ i \in 1..Len(frame) /\ SameFrame(frame'[i], frame[i])
                 /\ text'[frame[i].name] = text[frame[i].name]
              \/ Place(frame'[i], text'[frame'[i].name])
                   /\ ~(i <= Known(stack', frame', rv'))
  <2>1. CASE i = n + 1
    <3>1. ~(n + 1 <= n)
      OBVIOUS
    <3> QED
      BY <1>1, <1>6, <1>8, <1>19, <2>1, <3>1
  <2>2. CASE i # n + 1
    <3>1. i \in 1..n
      BY <1>6, <2>2
    <3>2. SameFrame(frame[i], frame[i])
      BY DEF SameFrame
    <3> QED
      BY <1>1, <1>2, <1>6, <3>1, <3>2
  <2> QED
    BY <2>1, <2>2
<1>21. /\ Len(frame) \in Nat /\ Len(frame') \in Nat /\ Len(stack') \in Nat
       /\ Known(stack', frame', rv') <= Known(stack, frame, rv)
  BY <1>3, <1>19, Lengths
<1>22. StackServed(text, frame, stack', Known(stack, frame, rv))
  BY <1>3, <1>12, <1>18
<1>23. \A f \in Files : UnitsGood(text'[f])
  BY <1>1, <1>7
<1> QED
  BY <1>20, <1>21, <1>22, <1>23, LineStep

\* A batch file is done.
LEMMA UnnestLined ==
  ASSUME BatInv, BatInv', LineParts(text, frame, stack, rv), NestedDone
  PROVE  LineParts(text', frame', stack', rv')
<1>1. /\ stack # <<>> /\ Top.kind = "batch" /\ frame' = Front(frame)
      /\ stack' = Below /\ text' = text
  BY DEF NestedDone, Return
<1>2. PICK n \in Nat : n = Len(frame)
  BY Lengths
<1>3. frame # <<>> /\ frame \in Seq(Frame)
  BY <1>1, Running, Framed
<1>4. n # 0 /\ Len(frame') = n - 1 /\ \A i \in 1..(n - 1) : frame'[i] = frame[i]
  BY <1>1, <1>2, <1>3, Popped
<1>5. Known(stack, frame, rv) = n - 1
  BY <1>1, <1>2 DEF Known, Top
<1>6. StackServed(text, frame, stack', Known(stack, frame, rv))
  BY <1>1, BelowServed
<1>7. ASSUME NEW i \in 1..Len(frame')
      PROVE  /\ i \in 1..Len(frame) /\ SameFrame(frame'[i], frame[i])
             /\ text'[frame[i].name] = text[frame[i].name]
  <2>1. i \in 1..(n - 1) /\ i \in 1..n
    BY <1>2, <1>4
  <2>2. SameFrame(frame[i], frame[i])
    BY DEF SameFrame
  <2> QED
    BY <1>1, <1>2, <1>4, <2>1, <2>2
<1>8. Len(frame) \in Nat /\ Len(frame') \in Nat /\ Len(stack') \in Nat
  BY Lengths
<1>9. Known(stack', frame', rv') <= Known(stack, frame, rv)
  BY <1>4, <1>5, <1>8, KnownBound
<1>10. \A f \in Files : UnitsGood(text'[f])
  BY <1>1 DEF LineParts, FramesPlaced
<1> QED
  BY <1>6, <1>7, <1>8, <1>9, <1>10, LineStep

\* CALL, IF and FOR return.
LEMMA DoneLined ==
  ASSUME BatInv, BatInv', LineParts(text, frame, stack, rv),
         CallDone \/ IfDone \/ ForDone
  PROVE  LineParts(text', frame', stack', rv')
<1>1. /\ stack # <<>> /\ Top.kind \in {"call", "if", "for"} /\ frame' = frame
      /\ stack' = Below /\ text' = text /\ rv' = rv
  BY DEF CallDone, IfDone, ForDone, ForBack, Return
<1>2. /\ Len(frame') = Len(frame)
      /\ \A i \in 1..Len(frame') : SameFrame(frame'[i], frame[i])
  BY <1>1 DEF SameFrame
<1>3. (rv # "abort" /\ Top.kind \notin {"batchcli", "batch"}) \/ rv' = "abort"
  BY <1>1
<1> QED
  BY <1>1, <1>2, <1>3, LineOn

\* No GOSUB is carried out.
LEMMA NoSubroutines ==
  ASSUME BatInv, LineParts(text, frame, stack, rv), NoGosub
  PROVE  ~Gosub /\ ~GosubDone
<1>1. ~Gosub
  <2>1. SUFFICES ASSUME Gosub
                 PROVE  FALSE
    OBVIOUS
  <2>2. AtCommand /\ Len(stack) >= 3 /\ Op[Cur] = "gosub"
    BY <2>1, CarriedOut DEF Gosub
  <2>3. PICK b, u : b = bframe /\ u = text[b.name]
    OBVIOUS
  <2>4. b \in Frame /\ OnLine(b, u) /\ MayRun(b, u, Cur)
    BY <2>2, <2>3, OnTheLine
  <2>5. PICK w \in Nat, n \in {Len(u)} : w = b.write_offset /\ n = Len(u)
    BY <2>4 DEF Frame
  <2>6. b.name \in Files /\ u \in Seq(Unit) /\ n \in Nat /\ w < n
    BY <2>3, <2>4, <2>5, LenProperties DEF Frame, BatInv, OnLine
  <2>7. w + 1 \in DOMAIN u
    <3>1. w + 1 \in 1..n
      BY <2>6
    <3> QED
      BY <2>5, <2>6, <3>1, LenProperties
  <2>8. PICK i \in DOMAIN u[w + 1].cmds : Cur \in Within[u[w + 1].cmds[i]]
    BY <2>4, <2>5 DEF MayRun
  <2>9. \A k \in DOMAIN u : \A j \in DOMAIN u[k].cmds :
           \A c \in Within[u[k].cmds[j]] : Op[c] # "gosub"
    BY <2>3, <2>6 DEF NoGosub
  <2> QED
    BY <2>2, <2>7, <2>8, <2>9
<1>2. ~GosubDone
  <2>1. SUFFICES ASSUME stack # <<>>, Top.kind = "gosub"
                 PROVE  FALSE
    BY DEF GosubDone
  <2>2. Len(stack) \in 1..Len(stack) /\ Top = stack[Len(stack)]
    BY <2>1, Running
  <2> QED
    BY <2>1, <2>2 DEF LineParts, StackServed
<1> QED
  BY <1>1, <1>2

\* A text is changed by INSERT_CMD alone.
LEMMA TextKept ==
  ASSUME [Next]_vars
  PROVE  text' = text \/ InsertBatch
BY DEF Next, Step, Batchcli, Command, External, Internal, Returns,
       ReadLine, EndOfFile, LineDone, CtrlC, CommandDone, Label, Skip, Program,
       KillBatch, Iff, ElseOrUnknown, Goto, Gosub, ReturnCmd, Quit, Call, TooDeep,
       Nested, Chain, If, For, GosubDone, CallDone, NestedDone, IfDone, ForNext,
       ForDone, vars

\* What stands in a file stays there.
LEMMA UnitsStay ==
  ASSUME BatInv, [Next]_vars, NEW f \in Files, NEW k \in DOMAIN text[f]
  PROVE  \E j \in DOMAIN text'[f] : text'[f][j] = text[f][k]
<1>1. CASE text' = text
  BY <1>1
<1>2. CASE InsertBatch /\ text' # text
  <2>1. /\ bframe \in Frame /\ FrameSane(bframe, text)
    BY <1>2, CarriedOut, Framed DEF InsertBatch
  <2>2. PICK b, w, u, n : /\ b = bframe /\ w = b.write_offset /\ u = text[b.name]
                          /\ n = Len(u)
    OBVIOUS
  <2>3. /\ b.name \in Files /\ u \in Seq(Unit) /\ n \in Nat /\ w \in Nat /\ w <= n
        /\ text \in [Files -> Seq(Unit)]
    BY <2>1, <2>2, LenProperties DEF FrameSane, Frame, BatInv
  <2>4. PICK v : v = InsertAt(u, w + 1, Inserted)
    OBVIOUS
  <2>5. text' = [text EXCEPT ![b.name] = v]
    BY <1>2, <2>2, <2>4 DEF InsertBatch
  <2>6. v \in Seq(Unit) /\ PutAt(v, u, w, Inserted)
    <3>1. Inserted \in Unit
      <4>1. InsCall \in Cmds
        BY BatchAssumption
      <4>2. <<InsCall>> \in Seq(Cmds)
        BY <4>1
      <4> QED
        BY <4>2 DEF Inserted, Unit
    <3>2. w \in 0..Len(u)
      BY <2>2, <2>3
    <3> QED
      BY <2>3, <2>4, <3>1, <3>2, InsertedAt
  <2>7. text'[b.name] = v /\ (f # b.name => text'[f] = text[f])
    BY <2>3, <2>5
  <2>8. CASE f = b.name
    <3>1. k \in 1..n /\ DOMAIN v = 1..(n + 1)
      BY <2>2, <2>3, <2>6, <2>8, LenProperties DEF PutAt
    <3>2. CASE k <= w
      <4>1. k \in 1..w /\ k \in 1..(n + 1)
        BY <2>3, <3>1, <3>2
      <4> QED
        BY <2>2, <2>6, <2>7, <2>8, <3>1, <4>1 DEF PutAt
    <3>3. CASE k > w
      <4>1. k \in (w + 1)..n /\ k + 1 \in 1..(n + 1)
        BY <2>3, <3>1, <3>3
      <4> QED
        BY <2>2, <2>6, <2>7, <2>8, <3>1, <4>1 DEF PutAt
    <3> QED
      BY <2>3, <3>1, <3>2, <3>3
  <2> QED
    BY <2>7, <2>8
<1> QED
  BY <1>1, <1>2, TextKept

\* So GOSUB does.
LEMMA GosubStays ==
  ASSUME BatInv, [Next]_vars, NoGosub'
  PROVE  NoGosub
BY UnitsStay DEF NoGosub

\* Every step keeps the invariant.
LEMMA LineNext ==
  ASSUME BatInv, BatInv', LineInv, Alone, [Next]_vars
  PROVE  LineInv'
<1> SUFFICES ASSUME NoGosub'
             PROVE  LineParts(text', frame', stack', rv')
  BY DEF LineInv
<1>1. NoGosub /\ LineParts(text, frame, stack, rv)
  BY GosubStays DEF LineInv
<1>2. CASE UNCHANGED vars
  BY <1>1, <1>2 DEF vars
<1>3. CASE Batchcli \/ CtrlC
  BY <1>1, <1>3, BatchcliLined
<1>4. CASE Command \/ Program \/ KillBatch \/ Iff \/ ElseOrUnknown \/ ReturnCmd
             \/ Quit \/ TooDeep
  BY <1>1, <1>4, StayLined
<1>5. CASE InsertBatch
  BY <1>1, <1>5, InsertLined
<1>6. CASE Goto \/ Chain
  BY <1>1, <1>6, MoveLined
<1>7. CASE Call \/ If \/ For
  BY <1>1, <1>7, BodiesLined
<1>8. CASE Nested
  BY <1>1, <1>8, NestLined
<1>9. CASE NestedDone
  BY <1>1, <1>9, UnnestLined
<1>10. CASE CallDone \/ IfDone \/ ForDone
  BY <1>1, <1>10, DoneLined
<1>11. CASE ForNext
  BY <1>1, <1>11, ForLined
<1>12. ~Gosub /\ ~GosubDone
  BY <1>1, NoSubroutines
<1> QED
  BY <1>2, <1>3, <1>4, <1>5, <1>6, <1>7, <1>8, <1>9, <1>10, <1>11, <1>12
  DEF Next, Step, External, Internal, Returns

\* BATPROC starts outside of all files, and nothing has been inserted yet.
LEMMA LineInit ==
  ASSUME Init
  PROVE  LineInv
<1>1. frame = <<>> /\ Len(frame) = 0
  BY EmptySeq DEF Init
<1>2. BatInv
  BY InitBat
<1>3. ASSUME NEW f \in Files
      PROVE  UnitsGood(text[f])
  <2>1. text[f] \in Seq([ins : {FALSE}, cmds : Seq(Cmds)])
    <3>1. text \in Texts
      BY DEF Init
    <3>2. text \in [Files -> Seq([ins : {FALSE}, cmds : Seq(Cmds)])]
      BY <3>1, BatchAssumption, Zenon
    <3> QED
      BY <3>2, Zenon
  <2>2. ASSUME NEW k \in 1..Len(text[f])
        PROVE  ~text[f][k].ins
    <3>1. text[f][k] \in [ins : {FALSE}, cmds : Seq(Cmds)]
      BY <2>1, ElementOfSeq
    <3> QED
      BY <3>1
  <2> QED
    BY <2>2 DEF UnitsGood
<1>4. PICK n \in Int : n = Known(stack, frame, rv) /\ n <= 0
  BY <1>1, KnownBound
<1>5. FramesPlaced(text, frame, n)
  BY <1>1, <1>3, <1>4 DEF FramesPlaced
<1>6. StackServed(text, frame, stack, n)
  <2>1. /\ Len(stack) = 1 /\ stack[1].kind = "command"
    BY DEF Init
  <2>2. ASSUME NEW k \in 1..Len(stack)
        PROVE  /\ stack[k].kind = "command"
               /\ Batches(stack, k) <= n => RunFrom(text, frame, Batches(stack, k), stack[k])
    <3>1. k = 1
      BY <2>1
    <3>2. Batches(stack, k) \in Nat
      BY <3>1, BatchesCount
    <3>3. Batches(stack, k) <= n => ~(Batches(stack, k) >= 1)
      BY <1>4, <3>2
    <3> QED
      BY <2>1, <3>1, <3>3 DEF RunFrom
  <2> QED
    BY <2>2 DEF StackServed
<1> QED
  BY <1>4, <1>5, <1>6 DEF LineInv, LineParts

\* Where no file uses GOSUB, BATPROC knows the line that it is on.
LEMMA LineAlways ==
  Spec /\ []Alone => []LineInv
<1>1. Init => LineInv
  BY LineInit
<1>2. BatInv /\ BatInv' /\ LineInv /\ Alone /\ [Next]_vars => LineInv'
  BY LineNext
<1> QED
  BY <1>1, <1>2, BatAlways, PTL DEF Spec

\* A CALL is put in front of a line once, at its beginning, if a file is not
\* inserted into while it is being run further out.
THEOREM InsertsOnce ==
  Spec /\ []Alone => []InsertedOnce
<1>1. BatInv /\ LineInv => InsertedOnce
  <2> SUFFICES ASSUME BatInv, LineInv, NoGosub, NEW f \in Files,
                      NEW k \in DOMAIN text[f], text[f][k].ins
               PROVE  k < Len(text[f]) /\ ~text[f][k + 1].ins
    BY DEF InsertedOnce
  <2>1. UnitsGood(text[f])
    BY DEF LineInv, LineParts, FramesPlaced
  <2>2. text[f] \in Seq(Unit)
    BY DEF BatInv
  <2>3. DOMAIN text[f] = 1..Len(text[f])
    BY <2>2, LenProperties
  <2> QED
    BY <2>1, <2>3 DEF UnitsGood
<1> QED
  BY <1>1, BatAlways, LineAlways, PTL

-----------------------------------------------------------------------------
(* The record of the lines that are carried out. *)

RangeLines(r) == {[name |-> r.name, line |-> l] : l \in r.from..r.to}

\* A line is in a range on file, or in the one that a frame has open.
ShownIn(ranges, x) == \E r \in ranges : x \in RangeLines(r)
ShownBy(fr, x) == fr.start_line # NoLine /\ x \in RangeLines(RangeOf(fr))
IsShown(o, frames, x) ==
    ShownIn(o.ranges, x) \/ \E i \in 1..Len(frames) : ShownBy(frames[i], x)

Ordered(fr) == fr.start_line # NoLine => fr.start_line <= fr.end_line

\* The lines shown are those carried out, and a program of which there is a
\* record was run from the line that the record says.
ShownParts(frames, o, r) ==
    /\ \A x : x \in r.lines <=> IsShown(o, frames, x)
    /\ \A i \in 1..Len(frames) : Ordered(frames[i])
    /\ \A p \in o.programs : \E q \in r.programs :
          q.name = p.name /\ q.line = p.line /\ q.resident = p.resident

\* MAXIMIZE.OUT and the history have their two parts.
OutSane ==
    /\ \E a, b : out = [ranges |-> a, programs |-> b]
    /\ \E a, b : ran = [lines |-> a, programs |-> b]

ShownInv == NoGosub => OutSane /\ ShownParts(frame, out, ran)

\* The frame has the range that it had.
SameRange(g, fr) ==
    g.name = fr.name /\ g.start_line = fr.start_line /\ g.end_line = fr.end_line

\* Then it shows the lines that it showed.
LEMMA RangeKept ==
  ASSUME NEW g, NEW fr, SameRange(g, fr)
  PROVE  (Ordered(fr) => Ordered(g)) /\ \A x : ShownBy(g, x) <=> ShownBy(fr, x)
BY DEF SameRange, Ordered, ShownBy, RangeOf

\* And so do the frames together.
LEMMA ShownSame ==
  ASSUME NEW frames, NEW gs, NEW o, NEW r, ShownParts(frames, o, r),
         Len(gs) = Len(frames), \A i \in 1..Len(gs) : SameRange(gs[i], frames[i])
  PROVE  ShownParts(gs, o, r)
<1>1. \A i \in 1..Len(gs) : Ordered(gs[i])
  BY RangeKept DEF ShownParts
<1>2. ASSUME NEW x
      PROVE  IsShown(o, gs, x) <=> IsShown(o, frames, x)
  <2>1. \A i \in 1..Len(gs) : ShownBy(gs[i], x) <=> ShownBy(frames[i], x)
    BY RangeKept
  <2> QED
    BY <2>1 DEF IsShown
<1> QED
  BY <1>1, <1>2 DEF ShownParts

\* The lines of a range.
LEMMA RangeOfIts ==
  ASSUME NEW n, NEW a, NEW b, NEW x
  PROVE  x \in RangeLines([name |-> n, from |-> a, to |-> b])
           <=> \E l \in a..b : x = [name |-> n, line |-> l]
BY DEF RangeLines

\* A line is counted: it continues the range, is in it, or starts another one.
LEMMA Counted ==
  ASSUME NEW fr \in Frame, Ordered(fr), ThisLine(fr) \in Nat, NEW g \in Frame,
         g = CountLine(fr), NEW x
  PROVE  /\ Ordered(g)
         /\ ShownBy(g, x) \/ (Outside(fr) /\ x \in RangeLines(RangeOf(fr)))
              <=> ShownBy(fr, x) \/ x = [name |-> fr.name, line |-> ThisLine(fr)]
<1>1. PICK n, a, b, t : /\ n = fr.name /\ a = fr.start_line /\ b = fr.end_line
                        /\ t = ThisLine(fr)
  OBVIOUS
<1>2. a \in Int /\ b \in Int /\ t \in Nat /\ (a # NoLine => a <= b)
  BY <1>1 DEF Frame, Ordered
<1>3. Outside(fr) <=> a # NoLine /\ (t > b + 1 \/ t < a)
  BY <1>1 DEF Outside
<1>4. /\ g.name = n
      /\ IF a = NoLine \/ Outside(fr)
           THEN g.start_line = t /\ g.end_line = t
           ELSE g.start_line = a /\ g.end_line = IF t = b + 1 THEN t ELSE b
  <2>1. PICK h \in Frame :
          /\ h = CountLine(fr) /\ h.name = fr.name
          /\ IF fr.start_line = NoLine \/ Outside(fr)
               THEN h.start_line = ThisLine(fr) /\ h.end_line = ThisLine(fr)
               ELSE /\ h.start_line = fr.start_line
                    /\ h.end_line = IF ThisLine(fr) = fr.end_line + 1
                                      THEN ThisLine(fr) ELSE fr.end_line
    BY LineCounted
  <2> QED
    BY <1>1, <2>1
<1>5. PICK c, d : c = g.start_line /\ d = g.end_line
  OBVIOUS
<1>6. t # NoLine
  BY <1>2 DEF NoLine
<1>7. c # NoLine /\ c <= d
  BY <1>2, <1>3, <1>4, <1>5, <1>6
<1>8. Ordered(g)
  BY <1>5, <1>7 DEF Ordered
<1>9. ShownBy(g, x) <=> \E l \in c..d : x = [name |-> n, line |-> l]
  BY <1>4, <1>5, <1>7, RangeOfIts DEF ShownBy, RangeOf
<1>10. x \in RangeLines(RangeOf(fr)) <=> \E l \in a..b : x = [name |-> n, line |-> l]
  BY <1>1, RangeOfIts DEF RangeOf
<1>11. ShownBy(fr, x) <=> a # NoLine /\ \E l \in a..b : x = [name |-> n, line |-> l]
  BY <1>1, <1>10 DEF ShownBy
<1>12. CASE a = NoLine \/ Outside(fr)
  <2>1. c = t /\ d = t
    BY <1>4, <1>5, <1>12
  <2>2. \A l : l \in c..d <=> l = t
    BY <1>2, <2>1
  <2>3. ShownBy(g, x) <=> x = [name |-> n, line |-> t]
    BY <1>9, <2>2, Zenon
  <2> QED
    BY <1>1, <1>3, <1>8, <1>10, <1>11, <1>12, <2>3
<1>13. CASE ~(a = NoLine \/ Outside(fr))
  <2>1. a <= b /\ t <= b + 1 /\ t >= a /\ c = a /\ d = IF t = b + 1 THEN t ELSE b
    BY <1>2, <1>3, <1>4, <1>5, <1>13
  <2>2. \A l : l \in c..d <=> l \in a..b \/ l = t
    BY <1>2, <2>1
  <2>3. ShownBy(g, x) <=> (\E l \in a..b : x = [name |-> n, line |-> l])
                            \/ x = [name |-> n, line |-> t]
    BY <1>9, <2>2, Zenon
  <2> QED
    BY <1>1, <1>8, <1>11, <1>13, <2>3
<1> QED
  BY <1>12, <1>13

\* Ranges are written out.
LEMMA Dumped ==
  ASSUME OutSane, NEW D, NEW o, o = [out EXCEPT !.ranges = @ \cup D]
  PROVE  /\ \E a, b : o = [ranges |-> a, programs |-> b]
         /\ o.programs = out.programs
         /\ \A x : ShownIn(o.ranges, x) <=>
                     ShownIn(out.ranges, x) \/ \E r \in D : x \in RangeLines(r)
<1>1. PICK a, b : out = [ranges |-> a, programs |-> b]
  BY DEF OutSane
<1>2. o = [ranges |-> a \cup D, programs |-> b]
  BY <1>1
<1>3. o.ranges = out.ranges \cup D /\ o.programs = out.programs
  BY <1>1, <1>2
<1> QED
  BY <1>2, <1>3 DEF ShownIn

\* A command is entered: its line is carried out, and shown.
LEMMA ShownEnter ==
  ASSUME BatInv, OutSane, ShownParts(frame, out, ran), frame # <<>>,
         NEW fr \in Frame, SameRange(fr, bframe), NEW below, NEW cmds,
         EnterCommand(fr, below, cmds),
         LineAt(fr.name, fr.write_offset) = ThisLine(fr), ThisLine(fr) \in Nat
  PROVE  OutSane' /\ ShownParts(frame', out', ran')
<1>1. PICK n \in Nat : n = Len(frame)
  BY Lengths
<1>2. PICK g \in Frame : g = CountLine(fr)
  BY LineCounted
<1>3. frame' = WithFrame(g)
  BY <1>2 DEF EnterCommand
<1>4. /\ n # 0 /\ bframe = frame[n] /\ Len(frame') = n /\ frame'[n] = g
      /\ \A i \in 1..(n - 1) : frame'[i] = frame[i]
  BY <1>1, <1>3, TopFrame
<1>5. PICK here : here = [name |-> fr.name, line |-> ThisLine(fr)]
  OBVIOUS
<1>6. PICK D : /\ out' = [out EXCEPT !.ranges = @ \cup D]
               /\ Outside(fr) => D = {RangeOf(fr)}
               /\ ~Outside(fr) => D = {}
  BY DEF EnterCommand, DumpIf
<1>7. PICK o : o = out'
  OBVIOUS
<1>8. /\ \E a, b : o = [ranges |-> a, programs |-> b]
      /\ o.programs = out.programs
      /\ \A x : ShownIn(o.ranges, x) <=>
                  ShownIn(out.ranges, x) \/ \E r \in D : x \in RangeLines(r)
  BY <1>6, <1>7, Dumped
<1>9. /\ \E a, b : ran' = [lines |-> a, programs |-> b]
      /\ ran'.programs = ran.programs /\ ran'.lines = ran.lines \cup {here}
  <2>1. PICK a, b : ran = [lines |-> a, programs |-> b]
    BY DEF OutSane
  <2>2. ran' = [ran EXCEPT !.lines = @ \cup {here}]
    BY <1>5 DEF EnterCommand
  <2>3. ran' = [lines |-> a \cup {here}, programs |-> b]
    BY <2>1, <2>2
  <2> QED
    BY <2>1, <2>3
<1>10. Ordered(fr)
  <2>1. n \in 1..n
    BY <1>4
  <2>2. Ordered(bframe)
    BY <1>1, <1>4, <2>1 DEF ShownParts
  <2> QED
    BY <2>2, RangeKept
<1>11. ASSUME NEW x
       PROVE  x \in ran'.lines <=> IsShown(out', frame', x)
  <2>1. ShownBy(g, x) \/ (Outside(fr) /\ x \in RangeLines(RangeOf(fr)))
          <=> ShownBy(fr, x) \/ x = here
    BY <1>2, <1>5, <1>10, Counted
  <2>2. ShownBy(fr, x) <=> ShownBy(frame[n], x)
    BY <1>4, RangeKept
  <2>3. (\E r \in D : x \in RangeLines(r)) <=>
            Outside(fr) /\ x \in RangeLines(RangeOf(fr))
    BY <1>6
  <2>4. /\ n \in 1..n /\ \A i \in 1..n : i = n \/ i \in 1..(n - 1)
        /\ \A i \in 1..(n - 1) : i \in 1..n
    BY <1>4
  <2>5. (\E i \in 1..n : ShownBy(frame[i], x)) <=>
            ShownBy(frame[n], x) \/ \E i \in 1..(n - 1) : ShownBy(frame[i], x)
    BY <2>4
  <2>6. (\E i \in 1..n : ShownBy(frame'[i], x)) <=>
            ShownBy(g, x) \/ \E i \in 1..(n - 1) : ShownBy(frame[i], x)
    BY <1>4, <2>4
  <2>7. x \in ran.lines <=> ShownIn(out.ranges, x)
                              \/ \E i \in 1..n : ShownBy(frame[i], x)
    BY <1>1 DEF ShownParts, IsShown
  <2>8. IsShown(out', frame', x) <=> ShownIn(o.ranges, x)
                              \/ \E i \in 1..n : ShownBy(frame'[i], x)
    BY <1>4, <1>7 DEF IsShown
  <2>9. ShownIn(o.ranges, x) <=>
            ShownIn(out.ranges, x) \/ \E r \in D : x \in RangeLines(r)
    BY <1>8
  <2>10. x \in ran'.lines <=> x \in ran.lines \/ x = here
    BY <1>9
  <2> QED
    BY <2>1, <2>2, <2>3, <2>5, <2>6, <2>7, <2>8, <2>9, <2>10
<1>12. ASSUME NEW i \in 1..Len(frame')
       PROVE  Ordered(frame'[i])
  <2>1. CASE i = n
    <3>1. Ordered(g)
      BY <1>2, <1>10, Counted
    <3> QED
      BY <1>4, <2>1, <3>1
  <2>2. CASE i # n
    <3>1. i \in 1..(n - 1) /\ i \in 1..n
      BY <1>4, <2>2
    <3> QED
      BY <1>1, <1>4, <3>1 DEF ShownParts
  <2> QED
    BY <2>1, <2>2
<1>13. ShownParts(frame', out', ran')
  <2>1. out'.programs = out.programs /\ ran'.programs = ran.programs
    BY <1>7, <1>8, <1>9
  <2> QED
    BY <1>11, <1>12, <2>1 DEF ShownParts
<1> QED
  BY <1>7, <1>8, <1>9, <1>13 DEF OutSane

\* A batch file ends: its last range is written out, and its frame goes or is
\* taken over.
LEMMA ShownExit ==
  ASSUME BatInv, OutSane, ShownParts(frame, out, ran), frame # <<>>, ExitDump,
         ran' = ran,
         \/ frame' = Front(frame)
         \/ \E g \in Frame : g.start_line = NoLine /\ frame' = WithFrame(g)
  PROVE  OutSane' /\ ShownParts(frame', out', ran')
<1>1. PICK n \in Nat : n = Len(frame)
  BY Lengths
<1>2. /\ n # 0 /\ bframe = frame[n]
      /\ \A i \in 1..(n - 1) : i \in 1..Len(frame') /\ frame'[i] = frame[i]
      /\ \A i \in 1..Len(frame') : /\ i \in 1..n
                                   /\ i \in 1..(n - 1) \/ frame'[i].start_line = NoLine
  <2>1. frame \in Seq(Frame)
    BY DEF BatInv, FramesSane
  <2>2. CASE frame' = Front(frame)
    <3>1. /\ Len(frame') = n - 1 /\ n # 0 /\ bframe = frame[n]
          /\ \A i \in 1..(n - 1) : frame'[i] = frame[i]
      BY <1>1, <2>1, <2>2, Popped DEF bframe
    <3> QED
      BY <3>1
  <2>3. CASE \E g \in Frame : g.start_line = NoLine /\ frame' = WithFrame(g)
    <3>1. PICK g \in Frame : g.start_line = NoLine /\ frame' = WithFrame(g)
      BY <2>3
    <3>2. /\ n # 0 /\ bframe = frame[n] /\ Len(frame') = n /\ frame'[n] = g
          /\ \A i \in 1..(n - 1) : frame'[i] = frame[i]
      BY <1>1, <3>1, TopFrame
    <3>3. /\ \A i \in 1..n : i = n \/ i \in 1..(n - 1)
          /\ \A i \in 1..(n - 1) : i \in 1..n
      OBVIOUS
    <3> QED
      BY <3>1, <3>2, <3>3
  <2> QED
    BY <2>2, <2>3
<1>3. PICK D : /\ out' = [out EXCEPT !.ranges = @ \cup D]
               /\ bframe.start_line # NoLine => D = {RangeOf(bframe)}
               /\ bframe.start_line = NoLine => D = {}
  BY DEF ExitDump, DumpIf
<1>4. PICK o : o = out'
  OBVIOUS
<1>5. /\ \E a, b : o = [ranges |-> a, programs |-> b]
      /\ o.programs = out.programs
      /\ \A x : ShownIn(o.ranges, x) <=>
                  ShownIn(out.ranges, x) \/ \E r \in D : x \in RangeLines(r)
  BY <1>3, <1>4, Dumped
<1>6. ASSUME NEW x
      PROVE  x \in ran'.lines <=> IsShown(out', frame', x)
  <2>1. (\E r \in D : x \in RangeLines(r)) <=> ShownBy(frame[n], x)
    BY <1>2, <1>3 DEF ShownBy
  <2>2. n \in 1..n /\ (\A i \in 1..n : i = n \/ i \in 1..(n - 1))
          /\ \A i \in 1..(n - 1) : i \in 1..n
    BY <1>2
  <2>3. (\E i \in 1..n : ShownBy(frame[i], x)) <=>
            ShownBy(frame[n], x) \/ \E i \in 1..(n - 1) : ShownBy(frame[i], x)
    BY <2>2
  <2>4. (\E i \in 1..Len(frame') : ShownBy(frame'[i], x)) <=>
            \E i \in 1..(n - 1) : ShownBy(frame[i], x)
    <3>1. ASSUME NEW i \in 1..Len(frame'), ShownBy(frame'[i], x)
          PROVE  \E j \in 1..(n - 1) : ShownBy(frame[j], x)
      <4>1. i \in 1..(n - 1)
        BY <1>2, <3>1 DEF ShownBy
      <4> QED
        BY <1>2, <3>1, <4>1
    <3>2. ASSUME NEW j \in 1..(n - 1), ShownBy(frame[j], x)
          PROVE  \E i \in 1..Len(frame') : ShownBy(frame'[i], x)
      BY <1>2, <3>2
    <3> QED
      BY <3>1, <3>2
  <2>5. x \in ran.lines <=> ShownIn(out.ranges, x)
                              \/ \E i \in 1..n : ShownBy(frame[i], x)
    BY <1>1 DEF ShownParts, IsShown
  <2>6. IsShown(out', frame', x) <=> ShownIn(o.ranges, x)
                              \/ \E i \in 1..Len(frame') : ShownBy(frame'[i], x)
    BY <1>4 DEF IsShown
  <2>7. ShownIn(o.ranges, x) <=>
            ShownIn(out.ranges, x) \/ \E r \in D : x \in RangeLines(r)
    BY <1>5
  <2> QED
    BY <2>1, <2>3, <2>4, <2>5, <2>6, <2>7
<1>7. ASSUME NEW i \in 1..Len(frame')
      PROVE  Ordered(frame'[i])
  <2>1. CASE i \in 1..(n - 1)
    <3>1. i \in 1..n
      BY <1>2, <2>1
    <3> QED
      BY <1>1, <1>2, <2>1, <3>1 DEF ShownParts
  <2>2. CASE frame'[i].start_line = NoLine
    BY <2>2 DEF Ordered
  <2> QED
    BY <1>2, <2>1, <2>2
<1>8. ShownParts(frame', out', ran')
  BY <1>4, <1>5, <1>6, <1>7 DEF ShownParts
<1> QED
  BY <1>4, <1>5, <1>8 DEF OutSane

\* A program runs, on the line that its file is on.
LEMMA ShownProgram ==
  ASSUME BatInv, OutSane, LineParts(text, frame, stack, rv), AtCommand,
         Len(stack) >= 3, ShownParts(frame, out, ran), RunProgram, frame' = frame
  PROVE  OutSane' /\ ShownParts(frame', out', ran')
<1>1. CASE out' = out /\ ran' = ran
  BY <1>1 DEF OutSane
<1>2. CASE ~(out' = out /\ ran' = ran)
  <2>1. OnLine(bframe, text[bframe.name])
    BY OnTheLine
  <2>2. LineAt(bframe.name, bframe.write_offset) = ThisLine(bframe)
    BY <2>1 DEF OnLine, Lines, LineAt, ThisLine
  <2>3. PICK resident \in BOOLEAN :
           /\ out' = [out EXCEPT !.programs = @ \cup
                       {[name |-> bframe.name, line |-> ThisLine(bframe),
                         resident |-> resident, star |-> for_flag]}]
           /\ ran' = [ran EXCEPT !.programs = @ \cup
                       {[name |-> Here.name, line |-> Here.line,
                         resident |-> resident]}]
    BY <1>2 DEF RunProgram
  <2>4. PICK p, q :
           /\ p = [name |-> bframe.name, line |-> ThisLine(bframe),
                   resident |-> resident, star |-> for_flag]
           /\ q = [name |-> Here.name, line |-> Here.line, resident |-> resident]
    OBVIOUS
  <2>5. q.name = p.name /\ q.line = p.line /\ q.resident = p.resident
    BY <2>2, <2>4 DEF Here
  <2>6. PICK a, b, c, d : /\ out = [ranges |-> a, programs |-> b]
                          /\ ran = [lines |-> c, programs |-> d]
    BY DEF OutSane
  <2>7. /\ out' = [ranges |-> a, programs |-> b \cup {p}]
        /\ ran' = [lines |-> c, programs |-> d \cup {q}]
    BY <2>3, <2>4, <2>6
  <2>8. /\ out'.ranges = out.ranges /\ ran'.lines = ran.lines
        /\ out'.programs = out.programs \cup {p}
        /\ ran'.programs = ran.programs \cup {q}
    BY <2>6, <2>7
  <2>9. \A x : x \in ran'.lines <=> IsShown(out', frame', x)
    BY <2>8 DEF ShownParts, IsShown
  <2>10. \A x \in out'.programs : \E y \in ran'.programs :
             y.name = x.name /\ y.line = x.line /\ y.resident = x.resident
    BY <2>5, <2>8 DEF ShownParts
  <2>11. \A i \in 1..Len(frame') : Ordered(frame'[i])
    BY DEF ShownParts
  <2>12. OutSane'
    BY <2>7 DEF OutSane
  <2> QED
    BY <2>9, <2>10, <2>11, <2>12 DEF ShownParts
<1> QED
  BY <1>1, <1>2

\* The innermost frame keeps its range.
LEMMA RangesSame ==
  ASSUME BatInv, frame # <<>>, NEW fr \in Frame, SameRange(fr, bframe)
  PROVE  /\ Len(WithFrame(fr)) = Len(frame)
         /\ \A i \in 1..Len(WithFrame(fr)) : SameRange(WithFrame(fr)[i], frame[i])
<1>1. PICK n \in Nat : n = Len(frame)
  BY Lengths
<1>2. PICK gs : gs = WithFrame(fr)
  OBVIOUS
<1>3. /\ bframe = frame[n] /\ Len(gs) = n /\ gs[n] = fr
      /\ \A i \in 1..(n - 1) : gs[i] = frame[i]
  BY <1>1, <1>2, TopFrame
<1>4. ASSUME NEW i \in 1..n
      PROVE  SameRange(gs[i], frame[i])
  <2>1. i = n \/ i \in 1..(n - 1)
    OBVIOUS
  <2>2. SameRange(frame[i], frame[i])
    BY DEF SameRange
  <2> QED
    BY <1>3, <2>1, <2>2
<1> QED
  BY <1>1, <1>2, <1>3, <1>4

\* A frame is ended, moved, or counts its GOSUBs: its range is the same.
LEMMA RangesTouched ==
  ASSUME NEW b \in Frame, NEW x \in Int, NEW k \in Int, NEW l
  PROVE  /\ [b EXCEPT !.gsoffset = x] \in Frame
         /\ SameRange([b EXCEPT !.gsoffset = x], b)
         /\ [b EXCEPT !.read_offset = x] \in Frame
         /\ SameRange([b EXCEPT !.read_offset = x], b)
         /\ SameRange(PlaceBack(b, x, k), b)
         /\ SameRange(GotoLabel(b, l), b)
BY DEF Frame, SameRange, PlaceBack, GotoLabel

\* The steps that carry out nothing that is shown.
LEMMA ShownUnchanged ==
  ASSUME BatInv, BatInv', OutSane, ShownParts(frame, out, ran),
         LineParts(text, frame, stack, rv),
         UNCHANGED <<out, ran>>,
         \/ EndOfFile \/ LineDone \/ CtrlC \/ Command \/ KillBatch
         \/ Iff \/ ElseOrUnknown \/ Goto \/ ReturnCmd \/ Quit \/ TooDeep
         \/ CallDone \/ IfDone \/ ForDone
         \/ InsertBatch
         \/ frame' = frame
  PROVE  OutSane' /\ ShownParts(frame', out', ran')
<1>1. OutSane'
  BY DEF OutSane
<1>9. PICK gs, o, r : gs = frame' /\ o = out' /\ r = ran'
  OBVIOUS
<1>10. ShownParts(frame, o, r)
  BY <1>9
<1>2. (Len(gs) = Len(frame) /\ \A i \in 1..Len(gs) : SameRange(gs[i], frame[i]))
         => ShownParts(gs, o, r)
  BY <1>10, ShownSame
<1>3. gs = frame => ShownParts(gs, o, r)
  BY <1>10
<1>4. ASSUME frame # <<>>, NEW fr \in Frame, SameRange(fr, bframe)
      PROVE  gs = WithFrame(fr) => ShownParts(gs, o, r)
  <2>1. PICK hs : hs = WithFrame(fr)
    OBVIOUS
  <2>2. Len(hs) = Len(frame) /\ \A i \in 1..Len(hs) : SameRange(hs[i], frame[i])
    BY <1>4, <2>1, RangesSame
  <2> QED
    BY <1>2, <2>1, <2>2
<1>5. ASSUME CtrlC \/ Quit \/ ReturnCmd
      PROVE  ShownParts(gs, o, r)
  <2>1. PICK hs : hs = [i \in DOMAIN frame |-> [frame[i] EXCEPT !.read_offset = Ended]]
    OBVIOUS
  <2>2. /\ Len(hs) = Len(frame)
        /\ \A i \in 1..Len(hs) : SameRange(hs[i], frame[i])
    BY <2>1, EndedStay DEF SameFrame, SameRange
  <2>3. PICK b : b = bframe
    OBVIOUS
  <2>4. PICK g, h : g = [b EXCEPT !.gsoffset = @ - 1] /\ h = [b EXCEPT !.read_offset = Ended]
    OBVIOUS
  <2>5. gs \in {frame, hs} \/ (~CtrlC /\ gs \in {WithFrame(g), WithFrame(h)})
    BY <1>5, <1>9, <2>1, <2>3, <2>4 DEF CtrlC, Quit, ReturnCmd
  <2>6. CASE gs = hs
    BY <1>2, <2>2, <2>6
  <2>7. CASE ~CtrlC /\ gs \in {WithFrame(g), WithFrame(h)}
    <3>1. PICK op \in {"return", "quit", "cancel"} : Carried(op)
      BY <1>5, <2>7 DEF ReturnCmd, Quit
    <3>2. frame # <<>> /\ Len(stack) >= 3
      BY <3>1, CarriedOut
    <3>3. b \in Frame
      BY <2>3, <3>2, Framed
    <3>4. PICK x : x = b.gsoffset - 1
      OBVIOUS
    <3>5. x \in Int /\ Ended \in Int /\ g = [b EXCEPT !.gsoffset = x]
      BY <2>4, <3>3, <3>4 DEF Frame, Ended
    <3>6. g \in Frame /\ h \in Frame /\ SameRange(g, b) /\ SameRange(h, b)
      BY <2>4, <3>3, <3>5, RangesTouched
    <3> QED
      BY <1>4, <2>3, <2>7, <3>2, <3>6
  <2> QED
    BY <1>3, <2>5, <2>6, <2>7
<1>6. ASSUME Goto
      PROVE  ShownParts(gs, o, r)
  <2>1. frame # <<>> /\ Len(stack) >= 3
    BY <1>6, CarriedOut DEF Goto
  <2>2. FrameSane(bframe, text) /\ bframe \in Frame
    BY <2>1, Framed
  <2>3. PICK b, g : b = bframe /\ g = GotoLabel(b, Target[Cur])
    OBVIOUS
  <2>4. g \in Frame
    BY <2>2, <2>3, LabelSane DEF FrameSane, BatInv
  <2>5. SameRange(g, b)
    <3>1. 0 \in Int
      OBVIOUS
    <3> QED
      BY <2>2, <2>3, <3>1, RangesTouched
  <2>6. gs = WithFrame(g)
    BY <1>6, <1>9, <2>3 DEF Goto
  <2> QED
    BY <1>4, <2>1, <2>3, <2>4, <2>5, <2>6
<1>7. ASSUME InsertBatch, frame' # frame
      PROVE  ShownParts(gs, o, r)
  <2>1. frame # <<>> /\ Len(stack) >= 3
    BY <1>7, CarriedOut DEF InsertBatch
  <2>2. bframe \in Frame
    BY <2>1, Framed
  <2>3. PICK b, x, k : b = bframe /\ x = b.write_offset /\ k = b.line_number - 1
    OBVIOUS
  <2>4. PICK g : g = PlaceBack(b, x, k)
    OBVIOUS
  <2>5. x \in Int /\ k \in Int /\ b \in Frame
    BY <2>2, <2>3 DEF Frame
  <2>6. g \in Frame
    <3>1. PlacedAt(PlaceBack(b, x, k), b, b.write_offset, x, k)
      <4>1. b.write_offset \in Nat
        BY <2>5 DEF Frame
      <4> QED
        BY <2>5, <4>1, Placed
    <3> QED
      BY <2>4, <3>1 DEF PlacedAt
  <2>7. SameRange(g, b)
    BY <2>4, <2>5, RangesTouched
  <2>8. gs = WithFrame(g)
    BY <1>7, <1>9, <2>3, <2>4 DEF InsertBatch, PlaceBack
  <2> QED
    BY <1>4, <2>1, <2>3, <2>6, <2>7, <2>8
<1>8. \/ frame' = frame \/ CtrlC \/ Quit \/ ReturnCmd \/ Goto
      \/ InsertBatch /\ frame' # frame
  BY DEF EndOfFile, LineDone, Command, CommandDone, Label, Skip, KillBatch, Iff,
     ElseOrUnknown, TooDeep, CallDone, IfDone, ForDone
<1> QED
  BY <1>1, <1>3, <1>5, <1>6, <1>7, <1>8, <1>9

\* The line that a frame is on has the number that the record gives it.
LEMMA LineHere ==
  ASSUME NEW fr \in Frame, text \in [Files -> Seq(Unit)],
         OnLine(fr, text[fr.name])
  PROVE  LineAt(fr.name, fr.write_offset) = ThisLine(fr) /\ ThisLine(fr) \in Nat
<1>1. PICK u, w : u = text[fr.name] /\ w = fr.write_offset
  OBVIOUS
<1>2. u \in Seq(Unit) /\ w \in Nat
  BY <1>1 DEF Frame
<1>3. Lines(u, w) \in Nat /\ Lines(u, w) = ThisLine(fr)
  BY <1>1, <1>2, LinesCount DEF OnLine, ThisLine
<1>4. LineAt(fr.name, w) = Lines(u, w)
  BY <1>1 DEF LineAt, Lines
<1> QED
  BY <1>1, <1>3, <1>4

\* CALL, IF and FOR run their bodies on the line where they stand.
LEMMA ShownBodies ==
  ASSUME BatInv, OutSane, ShownParts(frame, out, ran),
         LineParts(text, frame, stack, rv),
         Call \/ (If /\ ~(frame' = frame /\ out' = out /\ ran' = ran)) \/ For \/ ForNext
  PROVE  OutSane' /\ ShownParts(frame', out', ran')
<1>1. PICK below, cmds : EnterCommand(bframe, below, cmds)
  BY DEF Call, If, For, ForNext, RunBody
<1>2. frame # <<>> /\ bframe \in Frame /\ OnLine(bframe, text[bframe.name])
  <2>1. CASE ~ForNext
    <3>1. PICK op \in {"call", "if", "for"} : Carried(op)
      BY <2>1 DEF Call, If, For
    <3>2. AtCommand /\ Len(stack) >= 3
      BY <3>1, CarriedOut
    <3> QED
      BY <3>2, OnTheLine
  <2>2. CASE ForNext
    <3>1. stack # <<>> /\ Top.kind = "for" /\ rv # "abort"
      BY <2>2 DEF ForNext, ForBack, ForOver
    <3>2. Known(stack, frame, rv) = Len(frame)
      BY <3>1 DEF Known, Top
    <3>3. Len(stack) >= 3
      BY <3>1, Running
    <3>4. /\ frame # <<>> /\ bframe \in Frame /\ bframe = frame[Len(frame)]
          /\ Len(frame) \in 1..Len(frame)
      BY <3>3, Framed, Lengths
    <3> QED
      BY <3>2, <3>4 DEF LineParts, FramesPlaced
  <2> QED
    BY <2>1, <2>2
<1>3. /\ LineAt(bframe.name, bframe.write_offset) = ThisLine(bframe)
      /\ ThisLine(bframe) \in Nat
  BY <1>2, LineHere DEF BatInv
<1>4. SameRange(bframe, bframe)
  BY DEF SameRange
<1> QED
  BY <1>1, <1>2, <1>3, <1>4, ShownEnter

\* A line is read.
LEMMA ShownRead ==
  ASSUME BatInv, OutSane, ShownParts(frame, out, ran),
         LineParts(text, frame, stack, rv), ReadLine
  PROVE  OutSane' /\ ShownParts(frame', out', ran')
<1>1. /\ stack # <<>> /\ Top.kind = "batchcli" /\ bframe.read_offset # Ended /\ ~AtEnd
  BY DEF ReadLine, InBatchcli
<1>2. Len(stack) >= 2
  BY <1>1, Running
<1>3. PICK n \in Nat : n = Len(frame)
  BY Lengths
<1>4. bframe \in Frame /\ bframe = frame[n] /\ n # 0 /\ frame # <<>>
  BY <1>2, <1>3, Framed
<1>5. PICK f, o, u : f = bframe.name /\ o = bframe.read_offset /\ u = text[f]
  OBVIOUS
<1>6. PICK fr \in Frame :
         /\ fr = GetLine(bframe) /\ f \in Files /\ o \in Nat /\ o < Len(u)
         /\ fr.name = f /\ fr.write_offset = o
         /\ fr.line_number = bframe.line_number + 1
         /\ SameRange(fr, bframe)
  BY <1>1, <1>2, <1>5, LineGot DEF SameRange
<1>7. Place(bframe, u)
  <2>1. n \in 1..Len(frame)
    BY <1>3, <1>4
  <2> QED
    BY <1>4, <1>5, <2>1 DEF LineParts, FramesPlaced
<1>8. OnLine(fr, text[fr.name])
  <2>1. Lines(u, o) = bframe.line_number
    BY <1>1, <1>5, <1>7 DEF Place
  <2>2. (bframe.line_number + 1) - 1 = bframe.line_number
    BY <1>4 DEF Frame
  <2> QED
    BY <1>5, <1>6, <2>1, <2>2 DEF OnLine
<1>9. LineAt(fr.name, fr.write_offset) = ThisLine(fr) /\ ThisLine(fr) \in Nat
  BY <1>8, LineHere DEF BatInv
<1>10. PICK c : EnterCommand(fr, stack, c)
  BY <1>6 DEF ReadLine
<1> QED
  BY <1>4, <1>6, <1>9, <1>10, ShownEnter

\* A new frame has no range yet.
LEMMA ShownNest ==
  ASSUME BatInv, OutSane, ShownParts(frame, out, ran), Nested
  PROVE  OutSane' /\ ShownParts(frame', out', ran')
<1>1. AtCommand /\ Op[Cur] = "batch" /\ out' = out /\ ran' = ran
  BY DEF Nested, Carried
<1>2. PICK n \in Nat : n = Len(frame)
  BY Lengths
<1>3. PICK g : g = NewFrame(Target[Cur])
  OBVIOUS
<1>4. g \in Frame /\ g.start_line = NoLine
  BY <1>1, <1>3, NewSane, Carrying DEF FrameSane, BatInv, NewFrame
<1>5. PICK gs : gs = frame'
  OBVIOUS
<1>6. /\ Len(gs) = n + 1 /\ gs[n + 1] = g
      /\ \A i \in 1..n : gs[i] = frame[i]
  <2>1. frame \in Seq(Frame) /\ gs = Append(frame, g)
    BY <1>3, <1>5 DEF Nested, BatInv, FramesSane
  <2> QED
    BY <1>2, <1>4, <2>1, Pushed
<1>7. /\ n + 1 \in 1..(n + 1) /\ \A i \in 1..n : i \in 1..(n + 1)
      /\ \A i \in 1..(n + 1) : i = n + 1 \/ i \in 1..n
  OBVIOUS
<1>8. ~(\E x : ShownBy(g, x)) /\ Ordered(g)
  BY <1>4 DEF ShownBy, Ordered
<1>9. ASSUME NEW x
      PROVE  IsShown(out, gs, x) <=> IsShown(out, frame, x)
  BY <1>2, <1>6, <1>7, <1>8 DEF IsShown
<1>10. \A i \in 1..(n + 1) : Ordered(gs[i])
  BY <1>2, <1>6, <1>7, <1>8 DEF ShownParts
<1>11. ShownParts(gs, out, ran)
  BY <1>6, <1>9, <1>10 DEF ShownParts
<1> QED
  BY <1>1, <1>5, <1>11 DEF OutSane

\* A batch file is done, or taken over.
LEMMA ShownEnd ==
  ASSUME BatInv, OutSane, ShownParts(frame, out, ran), NestedDone \/ Chain
  PROVE  OutSane' /\ ShownParts(frame', out', ran')
<1>1. ExitDump /\ ran' = ran
  BY DEF NestedDone, Chain
<1>2. CASE NestedDone
  <2>1. frame # <<>>
    BY <1>2, Running, Framed DEF NestedDone
  <2> QED
    BY <1>1, <1>2, <2>1, ShownExit DEF NestedDone
<1>3. CASE Chain
  <2>1. AtCommand /\ Op[Cur] = "batch" /\ frame # <<>>
    BY <1>3 DEF Chain, Carried
  <2>2. PICK g : g = NewFrame(Target[Cur])
    OBVIOUS
  <2>3. g \in Frame /\ g.start_line = NoLine
    BY <2>1, <2>2, NewSane, Carrying DEF FrameSane, BatInv, NewFrame
  <2>4. frame' = WithFrame(g)
    BY <1>3, <2>2 DEF Chain
  <2> QED
    BY <1>1, <2>1, <2>3, <2>4, ShownExit
<1> QED
  BY <1>2, <1>3

\* Every step keeps the record exact.
LEMMA ShownNext ==
  ASSUME BatInv, BatInv', LineInv, ShownInv, [Next]_vars
  PROVE  ShownInv'
<1> SUFFICES ASSUME NoGosub'
             PROVE  OutSane' /\ ShownParts(frame', out', ran')
  BY DEF ShownInv
<1>1. NoGosub /\ LineParts(text, frame, stack, rv) /\ OutSane /\ ShownParts(frame, out, ran)
  BY GosubStays DEF LineInv, ShownInv
<1>2. CASE UNCHANGED vars
  <2>1. frame' = frame /\ UNCHANGED <<out, ran>>
    BY <1>2 DEF vars
  <2> QED
    BY <1>1, <2>1, ShownUnchanged
<1>3. CASE \/ EndOfFile \/ LineDone \/ CtrlC \/ Command \/ KillBatch
           \/ Iff \/ ElseOrUnknown \/ Goto \/ ReturnCmd \/ Quit \/ TooDeep
           \/ CallDone \/ IfDone \/ ForDone
           \/ (InsertBatch /\ bframe.name # InsFile)
  <2>1. UNCHANGED <<out, ran>>
    BY <1>3 DEF EndOfFile, LineDone, CtrlC, Command, CommandDone, Label, Skip, KillBatch,
       Iff, ElseOrUnknown, Goto, ReturnCmd, Quit, TooDeep, CallDone, IfDone, ForDone,
       InsertBatch
  <2> QED
    BY <1>1, <1>3, <2>1, ShownUnchanged
<1>4. CASE Program \/ (InsertBatch /\ bframe.name = InsFile)
  <2>1. RunProgram /\ frame' = frame
    BY <1>4 DEF Program, InsertBatch
  <2>2. PICK op \in {"prog", "insert"} : Carried(op)
    BY <1>4 DEF Program, InsertBatch
  <2>3. AtCommand /\ Len(stack) >= 3
    BY <2>2, CarriedOut
  <2> QED
    BY <1>1, <2>1, <2>3, ShownProgram
<1>5. CASE ReadLine
  BY <1>1, <1>5, ShownRead
<1>6. CASE Call \/ If \/ For \/ ForNext
  <2>1. CASE frame' = frame /\ out' = out /\ ran' = ran
    <3>1. UNCHANGED <<out, ran>>
      BY <2>1
    <3> QED
      BY <1>1, <2>1, <3>1, ShownUnchanged
  <2>2. CASE ~(frame' = frame /\ out' = out /\ ran' = ran)
    BY <1>1, <1>6, <2>2, ShownBodies
  <2> QED
    BY <2>1, <2>2
<1>7. CASE Nested
  BY <1>1, <1>7, ShownNest
<1>8. CASE NestedDone \/ Chain
  BY <1>1, <1>8, ShownEnd
<1>9. ~Gosub /\ ~GosubDone
  BY <1>1, NoSubroutines
<1>10. \/ ReadLine \/ EndOfFile \/ LineDone \/ Command
       \/ Program \/ InsertBatch \/ KillBatch
       \/ Iff \/ ElseOrUnknown \/ Goto \/ ReturnCmd \/ Quit
       \/ Call \/ TooDeep \/ Nested \/ Chain \/ If \/ For
       \/ CallDone \/ NestedDone \/ IfDone \/ ForNext \/ ForDone
       \/ CtrlC \/ UNCHANGED vars
  BY <1>9, Zenon DEF Next, Step, Batchcli, External, Internal, Returns
<1> QED
  BY <1>2, <1>3, <1>4, <1>5, <1>6, <1>7, <1>8, <1>10, Zenon

\* Nothing is carried out and nothing is shown at first.
LEMMA ShownInit ==
  ASSUME Init
  PROVE  ShownInv
<1>1. /\ frame = <<>> /\ out = [ranges |-> {}, programs |-> {}]
      /\ ran = [lines |-> {}, programs |-> {}]
  BY DEF Init
<1>2. Len(frame) = 0
  BY <1>1, EmptySeq
<1>3. ASSUME NEW x
      PROVE  x \notin ran.lines /\ ~IsShown(out, frame, x)
  BY <1>1, <1>2 DEF IsShown, ShownIn
<1>4. OutSane
  BY <1>1, Zenon DEF OutSane
<1>5. out.programs = {}
  BY <1>1
<1>6. \A i \in 1..Len(frame) : Ordered(frame[i])
  BY <1>2
<1>7. ShownParts(frame, out, ran)
  BY <1>3, <1>5, <1>6 DEF ShownParts
<1> QED
  BY <1>4, <1>7 DEF ShownInv

\* The record is exact where the lines are.
LEMMA ShownAlways ==
  Spec /\ []Alone => []ShownInv
<1>1. Init => ShownInv
  BY ShownInit
<1>2. BatInv /\ BatInv' /\ LineInv /\ ShownInv /\ [Next]_vars => ShownInv'
  BY ShownNext
<1> QED
  BY <1>1, <1>2, BatAlways, LineAlways, PTL DEF Spec

\* MAXIMIZE shows the lines that have been carried out and no others, if a file is
\* not inserted into while it is being run further out.
THEOREM RangesAreExact ==
  Spec /\ []Alone => []RangesExact
<1>1. BatInv /\ ShownInv => RangesExact
  <2> SUFFICES ASSUME BatInv, ShownInv, NoGosub
               PROVE  Visible(out.ranges \cup OpenRanges) = ran.lines
    BY DEF RangesExact
  <2>1. \A x : x \in ran.lines <=> IsShown(out, frame, x)
    BY DEF ShownInv, ShownParts
  <2>2. ASSUME NEW x
        PROVE  x \in Visible(out.ranges \cup OpenRanges) <=>
                 \E r \in out.ranges \cup OpenRanges : x \in RangeLines(r)
    BY DEF Visible, RangeLines
  <2>3. ToSet(frame) = {frame[i] : i \in 1..Len(frame)}
    <3>1. DOMAIN frame = 1..Len(frame)
      BY LenProperties DEF BatInv, FramesSane
    <3> QED
      BY <3>1 DEF ToSet
  <2>4. ASSUME NEW x
        PROVE  (\E r \in OpenRanges : x \in RangeLines(r)) <=>
                 \E i \in 1..Len(frame) : ShownBy(frame[i], x)
    BY <2>3 DEF OpenRanges, ShownBy
  <2>5. ASSUME NEW x
        PROVE  x \in Visible(out.ranges \cup OpenRanges) <=> x \in ran.lines
    BY <2>1, <2>2, <2>4 DEF IsShown, ShownIn
  <2> QED
    BY <2>5
<1> QED
  BY <1>1, BatAlways, ShownAlways, PTL

\* A line is marked only if its program stayed resident when that line was run.
THEOREM MarksAreRight ==
  Spec /\ []Alone => []MarkedStayed
<1>1. ShownInv => MarkedStayed
  <2> SUFFICES ASSUME ShownInv, NoGosub, NEW m \in Marked(out.programs)
               PROVE  \E p \in ran.programs :
                        p.resident /\ p.name = m.name /\ p.line = m.line
    BY DEF MarkedStayed
  <2>1. PICK p \in out.programs : ResProg(p) /\ m = [name |-> p.name, line |-> p.line]
    BY DEF Marked
  <2>2. PICK q \in ran.programs :
           q.name = p.name /\ q.line = p.line /\ q.resident = p.resident
    BY <2>1 DEF ShownInv, ShownParts
  <2> QED
    BY <2>1, <2>2 DEF ResProg
<1> QED
  BY <1>1, ShownAlways, PTL

-----------------------------------------------------------------------------
(* The IFF blocks of all files that are run. *)

\* Another element on top of the same ones.
LEMMA TopChanged ==
  ASSUME NEW S, NEW s \in Seq(S), NEW t \in Seq(S), s # <<>>,
         Len(t) = Len(s), \A i \in 1..(Len(s) - 1) : t[i] = s[i]
  PROVE  t = Append(Front(s), t[Len(s)])
<1>1. Len(s) \in Nat \ {0} /\ Len(s) \in 1..Len(t)
  BY EmptySeq
<1>2. PICK n, e : n = Len(s) /\ e = t[n]
  OBVIOUS
<1>3. e \in S
  BY <1>1, <1>2, ElementOfSeq
<1>4. /\ Append(Front(s), e) \in Seq(S) /\ Len(Append(Front(s), e)) = n
      /\ \A i \in 1..(n - 1) : Append(Front(s), e)[i] = s[i]
      /\ Append(Front(s), e)[n] = e
  BY <1>2, <1>3, Retopped
<1>5. PICK u : u = Append(Front(s), e)
  OBVIOUS
<1>6. \A i \in 1..n : i \in 1..(n - 1) \/ i = n
  BY <1>1, <1>2
<1>7. \A i \in 1..n : t[i] = u[i]
  BY <1>2, <1>4, <1>5, <1>6
<1>8. u \in Seq(S) /\ Len(u) = n
  BY <1>4, <1>5
<1>9. t = u
  BY <1>2, <1>7, <1>8, SeqEqual
<1> QED
  BY <1>2, <1>5, <1>9

\* An element more.
LEMMA TopAdded ==
  ASSUME NEW S, NEW s \in Seq(S), NEW t \in Seq(S),
         Len(t) = Len(s) + 1, \A i \in 1..Len(s) : t[i] = s[i]
  PROVE  t = Append(s, t[Len(s) + 1])
<1>1. Len(s) \in Nat /\ Len(s) + 1 \in 1..Len(t)
  BY LenProperties
<1>2. PICK n, e : n = Len(s) /\ e = t[n + 1]
  OBVIOUS
<1>3. e \in S
  BY <1>1, <1>2, ElementOfSeq
<1>4. /\ Append(s, e) \in Seq(S) /\ Len(Append(s, e)) = n + 1
      /\ \A i \in 1..n : Append(s, e)[i] = s[i]
      /\ Append(s, e)[n + 1] = e
  BY <1>2, <1>3, Pushed
<1>5. PICK u : u = Append(s, e)
  OBVIOUS
<1>6. \A i \in 1..(n + 1) : i \in 1..n \/ i = n + 1
  BY <1>1, <1>2
<1>7. \A i \in 1..(n + 1) : t[i] = u[i]
  BY <1>2, <1>4, <1>5, <1>6
<1>8. u \in Seq(S) /\ Len(u) = n + 1 /\ Len(t) = n + 1
  BY <1>2, <1>4, <1>5
<1>9. t = u
  BY <1>7, <1>8, SeqEqual
<1> QED
  BY <1>2, <1>5, <1>9

\* An element less.
LEMMA TopGone ==
  ASSUME NEW S, NEW s \in Seq(S), NEW t \in Seq(S), s # <<>>,
         Len(t) = Len(s) - 1, \A i \in 1..(Len(s) - 1) : t[i] = s[i]
  PROVE  t = Front(s)
<1>1. PICK n : n = Len(s) - 1
  OBVIOUS
<1>2. /\ Front(s) \in Seq(S) /\ Len(Front(s)) = n
      /\ \A i \in 1..n : Front(s)[i] = s[i]
  BY <1>1, Popped
<1>3. PICK u : u = Front(s)
  OBVIOUS
<1>4. \A i \in 1..n : t[i] = u[i]
  BY <1>1, <1>2, <1>3
<1>5. u \in Seq(S) /\ Len(u) = n /\ Len(t) = n
  BY <1>1, <1>2, <1>3
<1>6. t = u
  BY <1>4, <1>5, SeqEqual
<1> QED
  BY <1>3, <1>6

\* What the activation of batch saved that is the i-th of a stack.
SavedAt(s, i) ==
    s[CHOOSE k \in DOMAIN s : s[k].kind = "batch" /\ Batches(s, k) = i].save

\* There is one at every depth that is counted.
LEMMA SaverThere ==
  ASSUME NEW s, NEW n \in Nat, NEW i \in 1..Batches(s, n)
  PROVE  \E k \in 1..n : s[k].kind = "batch" /\ Batches(s, k) = i
<1>1. Batches(s, n) \in Nat /\ Batches(s, 0) = 0
  BY BatchesCount
<1>2. PICK d : d = Batches(s, n)
  OBVIOUS
<1>3. i \in Nat /\ 1 <= i /\ i <= d /\ d \in Nat
  BY <1>1, <1>2
<1>4. PICK K : K = {k \in Nat : k <= n /\ i <= Batches(s, k)}
  OBVIOUS
<1>5. n \in K
  BY <1>2, <1>3, <1>4
<1>6. PICK m \in K : \A k \in K : m <= k
  BY <1>4, <1>5, LeastNat
<1>7. m \in Nat /\ m <= n /\ i <= Batches(s, m)
  BY <1>4, <1>6
<1>8. m # 0
  BY <1>1, <1>3, <1>7
<1>9. PICK j : j = m - 1
  OBVIOUS
<1>10. j \in Nat /\ j + 1 = m /\ j <= n /\ ~(m <= j)
  BY <1>7, <1>8, <1>9
<1>11. ~(i <= Batches(s, j)) /\ Batches(s, j) \in Nat
  <2>1. j \notin K
    BY <1>6, <1>10
  <2> QED
    BY <1>4, <1>10, <2>1, BatchesCount
<1>12. Batches(s, m) = IF s[m].kind = "batch" THEN Batches(s, j) + 1
                                              ELSE Batches(s, j)
  BY <1>10, BatchesCount
<1>13. PICK x, y : x = Batches(s, j) /\ y = Batches(s, m)
  OBVIOUS
<1>14. s[m].kind = "batch"
  BY <1>7, <1>11, <1>12
<1>15. y = x + 1 /\ x \in Nat /\ ~(i <= x) /\ i <= y
  BY <1>7, <1>11, <1>12, <1>13, <1>14
<1>16. y = i
  BY <1>3, <1>15
<1>17. m \in 1..n /\ Batches(s, m) = i
  BY <1>7, <1>8, <1>13, <1>16
<1> QED
  BY <1>14, <1>17, Zenon

\* And only one.
LEMMA SaverOnly ==
  ASSUME NEW s, s \in Seq(Activation), NEW k \in 1..Len(s), s[k].kind = "batch"
  PROVE  SavedAt(s, Batches(s, k)) = s[k].save
<1>1. DOMAIN s = 1..Len(s) /\ Len(s) \in Nat
  BY LenProperties
<1>2. PICK i : i = Batches(s, k)
  OBVIOUS
<1>3. PICK j : j = CHOOSE x \in DOMAIN s : s[x].kind = "batch" /\ Batches(s, x) = i
  OBVIOUS
<1>4. j \in 1..Len(s) /\ s[j].kind = "batch" /\ Batches(s, j) = i
  <2>1. \E x \in DOMAIN s : s[x].kind = "batch" /\ Batches(s, x) = i
    BY <1>1, <1>2
  <2>2. j \in DOMAIN s /\ s[j].kind = "batch" /\ Batches(s, j) = i
    BY <1>3, <2>1, Zenon
  <2> QED
    BY <1>1, <2>2
<1>5. j \in Nat /\ k \in Nat /\ Batches(s, j) \in Nat /\ Batches(s, k) \in Nat
  <2>1. j \in Nat /\ k \in Nat
    BY <1>1, <1>4
  <2> QED
    BY <2>1, BatchesCount
<1>6. ~(j < k)
  <2> SUFFICES ASSUME j < k
               PROVE  FALSE
    OBVIOUS
  <2>1. j <= k
    BY <1>5
  <2>2. Batches(s, j) < Batches(s, k)
    BY <1>5, <2>1, BatchesGrow
  <2> QED
    BY <1>2, <1>4, <1>5, <2>2
<1>7. ~(k < j)
  <2> SUFFICES ASSUME k < j
               PROVE  FALSE
    OBVIOUS
  <2>1. k <= j
    BY <1>5
  <2>2. Batches(s, k) < Batches(s, j)
    BY <1>4, <1>5, <2>1, BatchesGrow
  <2> QED
    BY <1>2, <1>4, <1>5, <2>2
<1>8. j = k
  BY <1>5, <1>6, <1>7
<1> QED
  BY <1>2, <1>3, <1>8 DEF SavedAt

\* What is above does not matter.
LEMMA SavedSame ==
  ASSUME NEW s, s \in Seq(Activation), NEW t, t \in Seq(Activation),
         NEW n \in Nat, n <= Len(s), n <= Len(t),
         \A j \in 1..n : t[j] = s[j],
         NEW i \in 1..Batches(s, n)
  PROVE  SavedAt(t, i) = SavedAt(s, i)
<1>1. Len(s) \in Nat /\ Len(t) \in Nat
  BY LenProperties
<1>2. PICK k \in 1..n : s[k].kind = "batch" /\ Batches(s, k) = i
  BY SaverThere
<1>3. /\ k \in Nat /\ k \in 1..Len(s) /\ k \in 1..Len(t)
      /\ \A j \in 1..k : j \in 1..n
  BY <1>1
<1>4. t[k] = s[k] /\ \A j \in 1..k : t[j].kind = s[j].kind
  BY <1>3
<1>5. Batches(t, k) = i
  BY <1>2, <1>3, <1>4, BatchesSame
<1>6. SavedAt(s, i) = s[k].save
  BY <1>2, <1>3, SaverOnly
<1>7. SavedAt(t, i) = t[k].save
  BY <1>2, <1>3, <1>4, <1>5, SaverOnly
<1> QED
  BY <1>4, <1>6, <1>7

\* t is s but for activations other than batch at its end.
Outer(s, t) ==
    \E m \in Nat :
        /\ m <= Len(s) /\ m <= Len(t)
        /\ \A j \in 1..m : t[j] = s[j]
        /\ \A j \in (m + 1)..Len(s) : s[j].kind # "batch"
        /\ \A j \in (m + 1)..Len(t) : t[j].kind # "batch"

\* Then all that is saved stays.
LEMMA OuterSaved ==
  ASSUME NEW s, s \in Seq(Activation), NEW t, t \in Seq(Activation), Outer(s, t)
  PROVE  /\ Batches(t, Len(t)) = Batches(s, Len(s))
         /\ \A i \in 1..Batches(s, Len(s)) : SavedAt(t, i) = SavedAt(s, i)
<1>1. Len(s) \in Nat /\ Len(t) \in Nat
  BY LenProperties
<1>2. PICK m \in Nat :
        /\ m <= Len(s) /\ m <= Len(t)
        /\ \A j \in 1..m : t[j] = s[j]
        /\ \A j \in (m + 1)..Len(s) : s[j].kind # "batch"
        /\ \A j \in (m + 1)..Len(t) : t[j].kind # "batch"
  BY DEF Outer
<1>3. Batches(t, Len(t)) = Batches(t, m) /\ Batches(s, Len(s)) = Batches(s, m)
  BY <1>1, <1>2, BatchesFlat
<1>4. Batches(t, m) = Batches(s, m)
  BY <1>2, BatchesSame
<1>5. ASSUME NEW i \in 1..Batches(s, Len(s))
      PROVE  SavedAt(t, i) = SavedAt(s, i)
  <2>1. i \in 1..Batches(s, m)
    BY <1>3
  <2> QED
    BY <1>2, <2>1, SavedSame
<1> QED
  BY <1>3, <1>4, <1>5

\* A stack is itself.
LEMMA OuterSelf ==
  ASSUME NEW s, s \in Seq(Activation)
  PROVE  Outer(s, s)
<1>1. PICK n : n = Len(s)
  OBVIOUS
<1>2. n \in Nat /\ n <= n /\ \A j \in (n + 1)..n : FALSE
  BY <1>1, LenProperties
<1> QED
  BY <1>1, <1>2 DEF Outer

\* The innermost activation returns.
LEMMA OuterLess ==
  ASSUME NEW s, s \in Seq(Activation), s # <<>>, Last(s).kind # "batch"
  PROVE  Front(s) \in Seq(Activation) /\ Outer(s, Front(s))
<1>1. /\ Front(s) \in Seq(Activation) /\ Len(Front(s)) = Len(s) - 1
      /\ Len(s) \in Nat \ {0}
      /\ \A i \in 1..(Len(s) - 1) : Front(s)[i] = s[i]
      /\ Last(s) = s[Len(s)]
  BY Popped
<1>2. PICK n, t : n = Len(s) - 1 /\ t = Front(s)
  OBVIOUS
<1>3. /\ n \in Nat /\ Len(s) = n + 1 /\ Len(t) = n /\ n <= n + 1 /\ n <= n
      /\ \A j \in (n + 1)..n : FALSE
      /\ \A j \in (n + 1)..(n + 1) : j = n + 1
  BY <1>1, <1>2
<1>4. (\A i \in 1..n : t[i] = s[i]) /\ s[n + 1].kind # "batch"
  BY <1>1, <1>2, <1>3
<1>5. Outer(s, t)
  BY <1>3, <1>4 DEF Outer
<1> QED
  BY <1>1, <1>2, <1>5

\* A function other than batch is called.
LEMMA OuterMore ==
  ASSUME NEW s, s \in Seq(Activation), NEW t, t \in Seq(Activation), Outer(s, t),
         NEW e \in Activation, e.kind # "batch"
  PROVE  Append(t, e) \in Seq(Activation) /\ Outer(s, Append(t, e))
<1>1. PICK n, u : n = Len(t) /\ u = Append(t, e)
  OBVIOUS
<1>2. /\ u \in Seq(Activation) /\ n \in Nat /\ Len(u) = n + 1
      /\ \A i \in 1..n : u[i] = t[i]
      /\ u[n + 1] = e
  BY <1>1, Pushed
<1>3. PICK m \in Nat :
        /\ m <= Len(s) /\ m <= n
        /\ \A j \in 1..m : t[j] = s[j]
        /\ \A j \in (m + 1)..Len(s) : s[j].kind # "batch"
        /\ \A j \in (m + 1)..n : t[j].kind # "batch"
  BY <1>1 DEF Outer
<1>4. /\ m <= n + 1
      /\ \A j \in 1..m : j \in 1..n
      /\ \A j \in (m + 1)..(n + 1) : j = n + 1 \/ (j \in (m + 1)..n /\ j \in 1..n)
  BY <1>2, <1>3
<1>5. \A j \in 1..m : u[j] = s[j]
  BY <1>2, <1>3, <1>4
<1>6. \A j \in (m + 1)..(n + 1) : u[j].kind # "batch"
  BY <1>2, <1>3, <1>4
<1>7. Outer(s, u)
  BY <1>2, <1>3, <1>4, <1>5, <1>6 DEF Outer
<1> QED
  BY <1>1, <1>2, <1>7

\* Blocks, block by block.
LEMMA BlocksAre ==
  ASSUME NEW fl, Sane(fl), NEW a, NEW b, NEW c,
         a = fl.iff, b = fl.endiff, c = fl.else
  PROVE  /\ Blocks(fl) \in Seq(IffRef!BlockState)
         /\ a + b \in Nat /\ Len(Blocks(fl)) = a + b
         /\ \A i \in 1..(a + b) :
              Blocks(fl)[i] = IF i < a THEN "taken"
                              ELSE IF i > a THEN "ignored"
                              ELSE IF c = 0 THEN "taken"
                              ELSE IF c = 1 THEN "waiting" ELSE "over"
<1>1. a \in Nat /\ b \in Nat /\ a + b \in Nat
  BY DEF Sane
<1>2. PICK B : B = Blocks(fl)
  OBVIOUS
<1>3. PICK n : n = a + b
  OBVIOUS
<1>4. B = [i \in 1..n |->
             IF i < a THEN "taken"
             ELSE IF i > a THEN "ignored"
             ELSE IF c = 0 THEN "taken"
             ELSE IF c = 1 THEN "waiting" ELSE "over"]
  BY <1>2, <1>3, Zenon DEF Blocks
<1>5. B \in [1..n -> IffRef!BlockState]
  BY <1>4 DEF IffRef!BlockState
<1>6. n \in Nat
  BY <1>1, <1>3
<1>7. B \in Seq(IffRef!BlockState) /\ Len(B) = n
  BY <1>5, <1>6
<1> QED
  BY <1>1, <1>2, <1>3, <1>4, <1>7

\* A command of the flags is one of the blocks.
BlockStep(p, q) ==
    \/ q = p
    \/ IffRef!Runs(p) /\ \E x \in {"taken", "waiting"} : q = Append(p, x)
    \/ ~IffRef!Runs(p) /\ q = Append(p, "ignored")
    \/ /\ p # <<>>
       /\ \/ Last(p) = "waiting" /\ \E x \in {"taken", "waiting"} : q = Append(Front(p), x)
          \/ Last(p) = "taken" /\ q = Append(Front(p), "over")
          \/ q = Front(p)
    \/ q = <<>>

\* One block more: all before it are taken, or something is waited for.
LEMMA BlockAdded ==
  ASSUME NEW fl, Sane(fl), NEW gl, Sane(gl),
         \/ gl.iff = fl.iff + 1 /\ gl.endiff = 0 /\ fl.endiff = 0 /\ fl.else = 0
            /\ gl.else \in {0, 1}
         \/ gl.iff = fl.iff /\ gl.endiff = fl.endiff + 1 /\ fl.else # 0
            /\ gl.else = fl.else
  PROVE  BlockStep(Blocks(fl), Blocks(gl))
<1>1. PICK a, b, c : a = fl.iff /\ b = fl.endiff /\ c = fl.else
  OBVIOUS
<1>2. PICK d, e, f : d = gl.iff /\ e = gl.endiff /\ f = gl.else
  OBVIOUS
<1>3. /\ a \in Nat /\ b \in Nat /\ c \in {0, 1, 128}
      /\ d \in Nat /\ e \in Nat /\ f \in {0, 1, 128}
      /\ a = 0 => c = 0
  BY <1>1, <1>2 DEF Sane, WaitEndIff
<1>4. PICK p, q : p = Blocks(fl) /\ q = Blocks(gl)
  OBVIOUS
<1>5. /\ p \in Seq(IffRef!BlockState) /\ Len(p) = a + b
      /\ \A i \in 1..(a + b) : p[i] = IF i < a THEN "taken"
                                      ELSE IF i > a THEN "ignored"
                                      ELSE IF c = 0 THEN "taken"
                                      ELSE IF c = 1 THEN "waiting" ELSE "over"
  BY <1>1, <1>4, BlocksAre
<1>6. /\ q \in Seq(IffRef!BlockState) /\ Len(q) = d + e
      /\ \A i \in 1..(d + e) : q[i] = IF i < d THEN "taken"
                                      ELSE IF i > d THEN "ignored"
                                      ELSE IF f = 0 THEN "taken"
                                      ELSE IF f = 1 THEN "waiting" ELSE "over"
  BY <1>2, <1>4, BlocksAre
<1>7. DOMAIN p = 1..(a + b)
  BY <1>5, LenProperties
<1>8. d + e = (a + b) + 1 /\ a + b \in Nat /\ \A i \in 1..(a + b) : i \in 1..(d + e)
  BY <1>1, <1>2, <1>3
<1>9. \A i \in 1..(a + b) : q[i] = p[i]
  <2> SUFFICES ASSUME NEW i \in 1..(a + b)
               PROVE  q[i] = p[i]
    OBVIOUS
  <2>1. i \in 1..(d + e) /\ i \in Nat
    BY <1>3, <1>8
  <2> QED
    BY <1>1, <1>2, <1>3, <1>5, <1>6, <2>1
<1>10. q = Append(p, q[(a + b) + 1])
  <2>1. Len(q) = Len(p) + 1 /\ \A i \in 1..Len(p) : q[i] = p[i]
    BY <1>5, <1>6, <1>8, <1>9
  <2>2. q = Append(p, q[Len(p) + 1])
    BY <1>5, <1>6, <2>1, TopAdded
  <2> QED
    BY <1>5, <2>2
<1>11. (a + b) + 1 \in 1..(d + e) /\ (a + b) + 1 \in Nat
  BY <1>3, <1>8
<1>12. CASE fl.else = 0
  <2>1. d = a + 1 /\ e = 0 /\ b = 0 /\ f \in {0, 1}
    BY <1>1, <1>2, <1>12
  <2>2. IffRef!Runs(p)
    <3>1. \A i \in 1..(a + b) : p[i] = "taken"
      BY <1>1, <1>3, <1>5, <1>12, <2>1
    <3> QED
      BY <1>7, <3>1 DEF IffRef!Runs
  <2>3. q[(a + b) + 1] \in {"taken", "waiting"}
    BY <1>3, <1>6, <1>11, <2>1
  <2> QED
    BY <1>4, <1>10, <2>2, <2>3 DEF BlockStep
<1>13. CASE fl.else # 0
  <2>1. d = a /\ e = b + 1 /\ c # 0 /\ a # 0
    BY <1>1, <1>2, <1>3, <1>13
  <2>2. ~IffRef!Runs(p)
    <3>1. a \in 1..(a + b)
      BY <1>3, <2>1
    <3>2. p[a] # "taken"
      BY <1>3, <1>5, <2>1, <3>1
    <3> QED
      BY <1>7, <3>1, <3>2 DEF IffRef!Runs
  <2>3. q[(a + b) + 1] = "ignored"
    BY <1>3, <1>6, <1>11, <2>1
  <2> QED
    BY <1>4, <1>10, <2>2, <2>3 DEF BlockStep
<1> QED
  BY <1>12, <1>13

\* One block less.
LEMMA BlockGone ==
  ASSUME NEW fl, Sane(fl), NEW gl, Sane(gl), fl.iff # 0,
         \/ gl.iff = fl.iff - 1 /\ gl.endiff = 0 /\ fl.endiff = 0 /\ gl.else = 0
         \/ gl.iff = fl.iff /\ gl.endiff = fl.endiff - 1 /\ fl.endiff # 0
            /\ gl.else = fl.else
  PROVE  BlockStep(Blocks(fl), Blocks(gl))
<1>1. PICK a, b, c : a = fl.iff /\ b = fl.endiff /\ c = fl.else
  OBVIOUS
<1>2. PICK d, e, f : d = gl.iff /\ e = gl.endiff /\ f = gl.else
  OBVIOUS
<1>3. /\ a \in Nat /\ b \in Nat /\ c \in {0, 1, 128}
      /\ d \in Nat /\ e \in Nat /\ f \in {0, 1, 128}
      /\ a # 0
  BY <1>1, <1>2 DEF Sane, WaitEndIff
<1>4. PICK p, q : p = Blocks(fl) /\ q = Blocks(gl)
  OBVIOUS
<1>5. /\ p \in Seq(IffRef!BlockState) /\ Len(p) = a + b
      /\ \A i \in 1..(a + b) : p[i] = IF i < a THEN "taken"
                                      ELSE IF i > a THEN "ignored"
                                      ELSE IF c = 0 THEN "taken"
                                      ELSE IF c = 1 THEN "waiting" ELSE "over"
  BY <1>1, <1>4, BlocksAre
<1>6. /\ q \in Seq(IffRef!BlockState) /\ Len(q) = d + e
      /\ \A i \in 1..(d + e) : q[i] = IF i < d THEN "taken"
                                      ELSE IF i > d THEN "ignored"
                                      ELSE IF f = 0 THEN "taken"
                                      ELSE IF f = 1 THEN "waiting" ELSE "over"
  BY <1>2, <1>4, BlocksAre
<1>7. p # <<>>
  BY <1>3, <1>5, EmptySeq
<1>8. /\ d + e = (a + b) - 1 /\ a + b \in Nat
      /\ \A i \in 1..(d + e) : i \in 1..(a + b) /\ i \in Nat
  BY <1>1, <1>2, <1>3
<1>9. \A i \in 1..(d + e) : q[i] = p[i]
  <2> SUFFICES ASSUME NEW i \in 1..(d + e)
               PROVE  q[i] = p[i]
    OBVIOUS
  <2>1. i \in 1..(a + b) /\ i \in Nat
    BY <1>8
  <2>2. CASE d = a - 1 /\ e = 0 /\ f = 0
    <3>1. i < a /\ ~(i > d)
      BY <1>3, <2>1, <2>2
    <3> QED
      BY <1>5, <1>6, <2>1, <2>2, <3>1
  <2>3. CASE d = a /\ f = c
    BY <1>5, <1>6, <2>1, <2>3
  <2> QED
    BY <1>1, <1>2, <2>2, <2>3
<1>10. q = Front(p)
  <2>1. Len(q) = Len(p) - 1 /\ \A i \in 1..(Len(p) - 1) : q[i] = p[i]
    BY <1>5, <1>6, <1>8, <1>9
  <2> QED
    BY <1>5, <1>6, <1>7, <2>1, TopGone
<1> QED
  BY <1>4, <1>7, <1>10 DEF BlockStep

\* The innermost block changes.
LEMMA BlockTurned ==
  ASSUME NEW fl, Sane(fl), NEW gl, Sane(gl), fl.iff # 0,
         gl.iff = fl.iff, fl.endiff = 0, gl.endiff = 0,
         \/ fl.else = 1 /\ gl.else \in {0, 1}
         \/ fl.else # 1 /\ gl.else = WaitEndIff
  PROVE  BlockStep(Blocks(fl), Blocks(gl))
<1>1. PICK a, c, f : a = fl.iff /\ c = fl.else /\ f = gl.else
  OBVIOUS
<1>2. a \in Nat /\ c \in {0, 1, 128} /\ f \in {0, 1, 128} /\ a # 0 /\ a + 0 = a
  BY <1>1 DEF Sane, WaitEndIff
<1>3. PICK p, q : p = Blocks(fl) /\ q = Blocks(gl)
  OBVIOUS
<1>4. /\ p \in Seq(IffRef!BlockState) /\ Len(p) = a
      /\ \A i \in 1..a : p[i] = IF i < a THEN "taken"
                                ELSE IF i > a THEN "ignored"
                                ELSE IF c = 0 THEN "taken"
                                ELSE IF c = 1 THEN "waiting" ELSE "over"
  BY <1>1, <1>2, <1>3, BlocksAre
<1>5. /\ q \in Seq(IffRef!BlockState) /\ Len(q) = a
      /\ \A i \in 1..a : q[i] = IF i < a THEN "taken"
                                ELSE IF i > a THEN "ignored"
                                ELSE IF f = 0 THEN "taken"
                                ELSE IF f = 1 THEN "waiting" ELSE "over"
  BY <1>1, <1>2, <1>3, BlocksAre
<1>6. p # <<>>
  BY <1>2, <1>4, EmptySeq
<1>7. /\ a \in 1..a /\ \A i \in 1..(a - 1) : i \in 1..a /\ i < a
  BY <1>2
<1>8. q = Append(Front(p), q[a])
  <2>1. Len(q) = Len(p) /\ \A i \in 1..(Len(p) - 1) : q[i] = p[i]
    BY <1>4, <1>5, <1>7
  <2>2. q = Append(Front(p), q[Len(p)])
    BY <1>4, <1>5, <1>6, <2>1, TopChanged
  <2> QED
    BY <1>4, <2>2
<1>9. Last(p) = p[a]
  BY <1>4 DEF Last
<1>10. /\ p[a] = IF c = 0 THEN "taken" ELSE IF c = 1 THEN "waiting" ELSE "over"
       /\ q[a] = IF f = 0 THEN "taken" ELSE IF f = 1 THEN "waiting" ELSE "over"
  BY <1>2, <1>4, <1>5, <1>7
<1>11. CASE c = 1
  <2>1. Last(p) = "waiting" /\ q[a] \in {"taken", "waiting"}
    BY <1>1, <1>9, <1>10, <1>11, <1>2
  <2> QED
    BY <1>3, <1>6, <1>8, <2>1 DEF BlockStep
<1>12. CASE c = 0
  <2>1. Last(p) = "taken" /\ q[a] = "over"
    BY <1>1, <1>9, <1>10, <1>12 DEF WaitEndIff
  <2> QED
    BY <1>3, <1>6, <1>8, <2>1 DEF BlockStep
<1>13. CASE c = 128
  <2>1. f = 128
    BY <1>1, <1>13 DEF WaitEndIff
  <2>2. \A i \in 1..a : q[i] = p[i]
    BY <1>4, <1>5, <1>13, <2>1
  <2>3. q = p
    BY <1>4, <1>5, <2>2, SeqEqual
  <2> QED
    BY <1>3, <2>3 DEF BlockStep
<1> QED
  BY <1>2, <1>11, <1>12, <1>13

\* Flags that are equal, or none.
LEMMA BlocksLeft ==
  ASSUME NEW fl
  PROVE  /\ BlockStep(Blocks(fl), Blocks(fl))
         /\ Blocks(NoFlags) = <<>> /\ BlockStep(Blocks(fl), Blocks(NoFlags))
<1>1. Sane(NoFlags) /\ NoFlags.iff = 0 /\ NoFlags.endiff = 0
  BY DEF NoFlags, Sane
<1>2. Blocks(NoFlags) \in Seq(IffRef!BlockState) /\ Len(Blocks(NoFlags)) = 0 + 0
  BY <1>1, BlocksAre
<1>3. Blocks(NoFlags) = <<>>
  BY <1>2, EmptySeq
<1> QED
  BY <1>3 DEF BlockStep

\* What the flags do on the way to the next command is a step of the blocks.
LEMMA FlagsParsed ==
  ASSUME Sane(flags), NEW op, NEW r, r = IffParsing(op),
         op = "elseiff" => r.skip
  PROVE  BlockStep(Blocks(flags), Blocks(r.flags))
<1>1. PICK a, b, c : a = flags.iff /\ b = flags.endiff /\ c = flags.else
  OBVIOUS
<1>2. /\ a \in Nat /\ b \in Nat /\ c \in {0, 1, 128}
      /\ a = 0 => b = 0 /\ c = 0
      /\ b > 0 => c # 0
      /\ flags \in [iff : Int, endiff : Int, else : Int]
  BY <1>1 DEF Sane, WaitEndIff
<1>3. Sane(r.flags) /\ (flags.iff = 0 => r.flags = flags)
  BY Parsed
<1>4. BlockStep(Blocks(flags), Blocks(flags))
  BY BlocksLeft
<1>5. CASE a = 0
  BY <1>1, <1>3, <1>4, <1>5
<1>6. CASE a # 0
  <2>1. r = LET after ==
                IF op = "endiff"
                  THEN IF flags.endiff = 0
                         THEN [iff |-> flags.iff - 1, endiff |-> 0, else |-> 0]
                         ELSE [flags EXCEPT !.endiff = @ - 1]
                ELSE IF op = "iff" /\ flags.else # 0
                  THEN [flags EXCEPT !.endiff = @ + 1]
                ELSE IF op \in {"else", "elseiff"} /\ flags.endiff = 0
                  THEN IF flags.else = 1
                         THEN [iff |-> IF op = "elseiff" THEN flags.iff - 1
                                                         ELSE flags.iff,
                               endiff |-> 0, else |-> 0]
                         ELSE [flags EXCEPT !.else = WaitEndIff]
                ELSE flags
            IN [flags |-> after,
                skip |-> op = "endiff" \/ after.else # 0 \/ after.endiff # 0]
    BY <1>1, <1>6, Zenon DEF IffParsing
  <2>2. CASE op = "endiff" /\ b = 0
    <3>1. PICK g : g = [iff |-> flags.iff - 1, endiff |-> 0, else |-> 0]
      OBVIOUS
    <3>2. r.flags = g
      BY <1>1, <2>1, <2>2, <3>1
    <3>3. g.iff = flags.iff - 1 /\ g.endiff = 0 /\ g.else = 0
      BY <3>1
    <3>4. flags.iff # 0 /\ flags.endiff = 0 /\ Sane(g)
      BY <1>1, <1>3, <1>6, <2>2, <3>2
    <3> QED
      BY <3>2, <3>3, <3>4, BlockGone
  <2>3. CASE op = "endiff" /\ b # 0
    <3>1. PICK g : g = [flags EXCEPT !.endiff = @ - 1]
      OBVIOUS
    <3>2. r.flags = g
      BY <1>1, <2>1, <2>3, <3>1
    <3>3. g.iff = flags.iff /\ g.endiff = flags.endiff - 1 /\ g.else = flags.else
      BY <1>2, <3>1
    <3>4. flags.iff # 0 /\ flags.endiff # 0 /\ Sane(g)
      BY <1>1, <1>3, <1>6, <2>3, <3>2
    <3> QED
      BY <3>2, <3>3, <3>4, BlockGone
  <2>4. CASE op = "iff" /\ c # 0
    <3>1. PICK g : g = [flags EXCEPT !.endiff = @ + 1]
      OBVIOUS
    <3>2. r.flags = g
      BY <1>1, <2>1, <2>4, <3>1
    <3>3. g.iff = flags.iff /\ g.endiff = flags.endiff + 1 /\ g.else = flags.else
      BY <1>2, <3>1
    <3>4. flags.else # 0 /\ Sane(g)
      BY <1>1, <1>3, <2>4, <3>2
    <3> QED
      BY <3>2, <3>3, <3>4, BlockAdded
  <2>5. CASE op = "else" /\ b = 0 /\ c = 1
    <3>1. PICK g : g = [iff |-> IF op = "elseiff" THEN flags.iff - 1 ELSE flags.iff,
                       endiff |-> 0, else |-> 0]
      OBVIOUS
    <3>2. r.flags = g
      BY <1>1, <2>1, <2>5, <3>1
    <3>3. g.iff = flags.iff /\ g.endiff = 0 /\ g.else = 0
      BY <2>5, <3>1
    <3>4. flags.iff # 0 /\ flags.endiff = 0 /\ flags.else = 1 /\ Sane(g)
      BY <1>1, <1>3, <1>6, <2>5, <3>2
    <3> QED
      BY <3>2, <3>3, <3>4, BlockTurned
  <2>6. CASE op = "elseiff" /\ b = 0 /\ c = 1
    <3>1. PICK g : g = [iff |-> IF op = "elseiff" THEN flags.iff - 1 ELSE flags.iff,
                       endiff |-> 0, else |-> 0]
      OBVIOUS
    <3>2. r.flags = g /\ r.skip = (op = "endiff" \/ g.else # 0 \/ g.endiff # 0)
      BY <1>1, <2>1, <2>6, <3>1
    <3>3. g.else = 0 /\ g.endiff = 0 /\ op # "endiff" /\ op = "elseiff"
      BY <2>6, <3>1
    <3> QED
      BY <3>2, <3>3, Zenon
  <2>7. CASE op \in {"else", "elseiff"} /\ b = 0 /\ c # 1
    <3>1. PICK g : g = [flags EXCEPT !.else = WaitEndIff]
      OBVIOUS
    <3>2. r.flags = g
      BY <1>1, <2>1, <2>7, <3>1
    <3>3. g.iff = flags.iff /\ g.endiff = flags.endiff /\ g.else = WaitEndIff
      BY <1>2, <3>1
    <3>4. flags.iff # 0 /\ flags.endiff = 0 /\ flags.else # 1 /\ Sane(g)
      BY <1>1, <1>3, <1>6, <2>7, <3>2
    <3> QED
      BY <3>2, <3>3, <3>4, BlockTurned
  <2>8. CASE /\ op # "endiff" /\ ~(op = "iff" /\ c # 0)
             /\ ~(op \in {"else", "elseiff"} /\ b = 0)
    <3>1. r.flags = flags
      BY <1>1, <2>1, <2>8
    <3> QED
      BY <1>4, <3>1
  <2> QED
    BY <2>2, <2>3, <2>4, <2>5, <2>6, <2>7, <2>8
<1> QED
  BY <1>5, <1>6

\* IFF and ELSEIFF with their conditions are steps of the blocks.
LEMMA FlagsDecided ==
  ASSUME Sane(flags), Iff, Sane(flags')
  PROVE  BlockStep(Blocks(flags), Blocks(flags'))
<1>1. PICK op : op = Op[Cur]
  OBVIOUS
<1>2. /\ Carried(op)
      /\ op = "iff" \/ (op = "elseiff" /\ flags.iff # 0)
      /\ AtCommand
  BY <1>1 DEF Iff, Carried
<1>3. PICK r : r = IffParsing(op)
  OBVIOUS
<1>4. ~r.skip
  BY <1>2, <1>3 DEF Carried
<1>5. /\ Sane(r.flags) /\ r.flags.else = 0 /\ r.flags.endiff = 0
      /\ flags.iff = 0 => r.flags = flags
  BY <1>3, <1>4, Parsed
<1>6. PICK x \in {0, 1} : flags' = [r.flags EXCEPT !.iff = @ + 1, !.else = @ + x]
  BY <1>1, <1>3 DEF Iff
<1>7. PICK a, g : a = r.flags.iff /\ g = flags'
  OBVIOUS
<1>8. g.iff = a + 1 /\ g.endiff = 0 /\ g.else = 0 + x /\ 0 + x = x
  BY <1>5, <1>6, <1>7 DEF Sane
<1>9. Sane(g) /\ g.else \in {0, 1} /\ a \in Nat
  BY <1>5, <1>7, <1>8 DEF Sane
<1>10. CASE r.flags = flags
  <2>1. flags.endiff = 0 /\ flags.else = 0 /\ g.iff = flags.iff + 1
    BY <1>5, <1>7, <1>8, <1>10
  <2> QED
    BY <1>7, <1>8, <1>9, <2>1, BlockAdded
<1>11. CASE r.flags # flags
  <2>1. flags.iff # 0
    BY <1>5, <1>11
  <2>2. op = "elseiff" /\ flags.endiff = 0 /\ flags.else = 1 /\ r.flags.iff = flags.iff - 1
    <3>1. CASE op = "iff"
      <4>1. flags.else # 0
        BY <1>3, <1>11, <2>1, <3>1 DEF IffParsing
      <4>2. r.flags = [flags EXCEPT !.endiff = @ + 1]
        BY <1>3, <2>1, <3>1, <4>1 DEF IffParsing
      <4>3. flags \in [iff : Int, endiff : Int, else : Int]
        BY DEF Sane, WaitEndIff
      <4>4. r.flags.else = flags.else
        BY <4>2, <4>3
      <4> QED
        BY <1>5, <4>1, <4>4
    <3>2. CASE op = "elseiff"
      <4>1. flags.endiff = 0
        BY <1>3, <1>11, <2>1, <3>2 DEF IffParsing
      <4>2. flags.else = 1
        <5> SUFFICES ASSUME flags.else # 1
                     PROVE  FALSE
          OBVIOUS
        <5>1. r.flags = [flags EXCEPT !.else = WaitEndIff]
          BY <1>3, <2>1, <3>2, <4>1 DEF IffParsing
        <5>2. flags \in [iff : Int, endiff : Int, else : Int]
          BY DEF Sane, WaitEndIff
        <5>3. r.flags.else = 128
          BY <5>1, <5>2 DEF WaitEndIff
        <5> QED
          BY <1>5, <5>3
      <4>3. r.flags = [iff |-> flags.iff - 1, endiff |-> 0, else |-> 0]
        BY <1>3, <2>1, <3>2, <4>1, <4>2 DEF IffParsing
      <4> QED
        BY <3>2, <4>1, <4>2, <4>3
    <3> QED
      BY <1>2, <3>1, <3>2
  <2>3. g.iff = flags.iff
    <3>1. PICK b : b = flags.iff
      OBVIOUS
    <3>2. b \in Nat /\ (b - 1) + 1 = b
      BY <3>1 DEF Sane
    <3> QED
      BY <1>7, <1>8, <2>2, <3>1, <3>2
  <2> QED
    BY <1>7, <1>8, <1>9, <2>1, <2>2, <2>3, BlockTurned
<1> QED
  BY <1>10, <1>11

\* No step but the call of a batch file and its end touches what is saved.
LEMMA OuterStep ==
  ASSUME BatInv, BatInv', Next, ~Nested, ~NestedDone
  PROVE  Outer(stack, stack')
<1>1. stack \in Seq(Activation) /\ Outer(stack, stack)
  BY OuterSelf DEF BatInv, StackSane
<1>2. ASSUME stack' = stack
      PROVE  Outer(stack, stack')
  BY <1>1, <1>2
<1>3. ASSUME stack # <<>>, Top.kind # "batch"
      PROVE  Below \in Seq(Activation) /\ Outer(stack, Below)
  BY <1>1, <1>3, OuterLess DEF Top, Below
<1>4. ASSUME stack # <<>>, Top.kind # "batch", stack' = Below
      PROVE  Outer(stack, stack')
  BY <1>3, <1>4
<1>5. ASSUME AtCommand
      PROVE  Rest \in Seq(Activation) /\ Outer(stack, Rest)
  <2>1. stack # <<>> /\ Top.kind # "batch"
    BY <1>5 DEF AtCommand, InCommand
  <2>2. PICK e : e = [Top EXCEPT !.rest = Tail(@)]
    OBVIOUS
  <2>3. e \in Activation /\ e.kind = "command"
    <3>1. Top \in Activation /\ Top.kind = "command" /\ Tail(Top.rest) \in Seq(Cmds)
      BY <1>5, <2>1, Carrying, Running
    <3>2. Top \in [kind : {"command"}, rest : Seq(Cmds)]
      BY <3>1 DEF Activation
    <3>3. e \in [kind : {"command"}, rest : Seq(Cmds)]
      BY <2>2, <3>1, <3>2
    <3> QED
      BY <3>3 DEF Activation
  <2>4. Below \in Seq(Activation) /\ Outer(stack, Below)
    BY <1>3, <2>1
  <2> QED
    BY <1>1, <2>2, <2>3, <2>4, OuterMore DEF Rest
<1>6. ASSUME AtCommand, NEW x, Finish(x)
      PROVE  Outer(stack, stack')
  BY <1>5, <1>6 DEF Finish
<1>7. ASSUME NEW fr, NEW t, t \in Seq(Activation), Outer(stack, t),
             NEW cmds \in Seq(Cmds), EnterCommand(fr, t, cmds)
      PROVE  Outer(stack, stack')
  <2>1. PICK e : e = [kind |-> "command", rest |-> cmds]
    OBVIOUS
  <2>2. e \in Activation /\ e.kind # "batch"
    BY <2>1 DEF Activation
  <2>3. stack' = Append(t, e)
    BY <1>7, <2>1 DEF EnterCommand
  <2> QED
    BY <1>1, <1>7, <2>2, <2>3, OuterMore
<1>8. ASSUME AtCommand, NEW e \in Activation, e.kind # "batch", NEW c \in Cmds,
             RunBody(e, c)
      PROVE  Outer(stack, stack')
  <2>1. PICK t : t = Append(Rest, e)
    OBVIOUS
  <2>2. t \in Seq(Activation) /\ Outer(stack, t)
    BY <1>1, <1>5, <1>8, <2>1, OuterMore
  <2>3. EnterCommand(bframe, t, <<c>>) /\ <<c>> \in Seq(Cmds)
    BY <1>8, <2>1 DEF RunBody
  <2> QED
    BY <1>7, <2>2, <2>3
<1>9. CASE EndOfFile \/ CtrlC \/ LineDone
  BY <1>2, <1>4, <1>9 DEF EndOfFile, CtrlC, LineDone, InBatchcli, Return
<1>10. CASE ReadLine
  <2>1. stack # <<>> /\ Top.kind = "batchcli" /\ bframe.read_offset # Ended /\ ~AtEnd
    BY <1>10 DEF ReadLine, InBatchcli
  <2>2. Len(stack) >= 2
    BY <2>1, Running
  <2>3. PICK fr, c : /\ fr = GetLine(bframe)
                     /\ c = Commands(bframe.name, bframe.read_offset)
    OBVIOUS
  <2>4. c \in Seq(Cmds)
    BY <2>1, <2>2, <2>3, LineGot
  <2>5. EnterCommand(fr, stack, c)
    BY <1>10, <2>3 DEF ReadLine
  <2> QED
    BY <1>1, <1>7, <2>4, <2>5
<1>11. CASE Command
  <2>1. CASE CommandDone \/ Label
    BY <1>2, <1>4, <2>1 DEF CommandDone, Label, AtCommand, InCommand, Return
  <2>2. CASE Skip
    <3>1. AtCommand /\ Finish("run")
      BY <2>2 DEF Skip, Finish
    <3> QED
      BY <1>6, <3>1
  <2> QED
    BY <1>11, <2>1, <2>2 DEF Command
<1>12. CASE External
  <2>1. AtCommand /\ \E x : Finish(x)
    BY <1>12 DEF External, Program, InsertBatch, KillBatch, Carried
  <2> QED
    BY <1>6, <2>1
<1>13. CASE Iff \/ ElseOrUnknown \/ Goto \/ ReturnCmd \/ Quit \/ TooDeep \/ Chain
  <2>1. AtCommand
    BY <1>13 DEF Iff, ElseOrUnknown, Goto, ReturnCmd, Quit, TooDeep, Chain, Carried
  <2>2. \E x : Finish(x)
    BY <1>13 DEF Iff, ElseOrUnknown, Goto, ReturnCmd, Quit, TooDeep, Chain
  <2> QED
    BY <1>6, <2>1, <2>2
<1>14. CASE Gosub
  <2>1. AtCommand
    BY <1>14 DEF Gosub, Carried
  <2>2. CASE Finish("ok")
    BY <1>6, <2>1, <2>2
  <2>3. CASE ~Finish("ok")
    <3>1. PICK d, e : /\ d = [kind |-> "gosub", offset |-> bframe.read_offset]
                      /\ e = [kind |-> "batchcli"]
      OBVIOUS
    <3>2. stack' = Append(Append(Rest, d), e)
      BY <1>14, <2>3, <3>1, Zenon DEF Gosub
    <3>3. d \in Activation /\ e \in Activation /\ d.kind # "batch" /\ e.kind # "batch"
      <4>1. Len(stack) >= 3
        <5>1. Carried("gosub")
          BY <1>14 DEF Gosub
        <5> QED
          BY <5>1, CarriedOut
      <4>2. bframe.read_offset \in Int
        BY <4>1, Framed DEF Frame
      <4> QED
        BY <3>1, <4>2 DEF Activation
    <3>4. PICK t : t = Append(Rest, d)
      OBVIOUS
    <3>5. t \in Seq(Activation) /\ Outer(stack, t)
      BY <1>1, <1>5, <2>1, <3>3, <3>4, OuterMore
    <3> QED
      BY <1>1, <3>2, <3>3, <3>4, <3>5, OuterMore
  <2> QED
    BY <2>2, <2>3
<1>15. CASE Call \/ If \/ For
  <2>1. AtCommand
    BY <1>15 DEF Call, If, For, Carried
  <2>2. Cur \in Cmds /\ Body[Cur] \in Cmds
    BY <2>1, Carrying, BatchAssumption
  <2>3. CASE Finish("ok")
    BY <1>6, <2>1, <2>3
  <2>4. CASE ~Finish("ok")
    <3>1. PICK e : /\ e = [kind |-> "call"] \/ e = [kind |-> "if"]
                      \/ e = [kind |-> "for", left |-> ForItems - 1, body |-> Body[Cur]]
                   /\ RunBody(e, Body[Cur])
      BY <1>15, <2>4 DEF Call, If, For
    <3>2. e \in Activation /\ e.kind # "batch"
      BY <2>2, <3>1, BatchAssumption DEF Activation
    <3> QED
      BY <1>8, <2>1, <2>2, <3>1, <3>2
  <2> QED
    BY <2>3, <2>4
<1>16. CASE GosubDone \/ CallDone \/ IfDone \/ ForDone
  BY <1>4, <1>16 DEF GosubDone, CallDone, IfDone, ForDone, ForBack, Return
<1>17. CASE ForNext
  <2>1. stack # <<>> /\ Top.kind = "for" /\ ~ForOver
    BY <1>17 DEF ForNext, ForBack
  <2>2. PICK b, x, e : b = Top /\ x = b.left - 1 /\ e = [b EXCEPT !.left = x]
    OBVIOUS
  <2>3. b \in [kind : {"for"}, left : Nat, body : Cmds] /\ b.left # 0
    <3>1. Top \in Activation
      BY <2>1, Running
    <3> QED
      BY <2>1, <2>2, <3>1 DEF Activation, ForOver
  <2>4. e \in Activation /\ e.kind = "for" /\ b.body \in Cmds
    <3>1. x \in Nat
      BY <2>2, <2>3
    <3>2. e \in [kind : {"for"}, left : Nat, body : Cmds]
      BY <2>2, <2>3, <3>1
    <3> QED
      BY <2>3, <3>2 DEF Activation
  <2>5. Below \in Seq(Activation) /\ Outer(stack, Below)
    BY <1>3, <2>1
  <2>6. PICK t : t = Append(Below, e)
    OBVIOUS
  <2>7. t \in Seq(Activation) /\ Outer(stack, t)
    BY <1>1, <2>4, <2>5, <2>6, OuterMore
  <2>8. EnterCommand(bframe, t, <<b.body>>) /\ <<b.body>> \in Seq(Cmds)
    BY <1>17, <2>2, <2>4, <2>6 DEF ForNext
  <2> QED
    BY <1>7, <2>7, <2>8
<1> QED
  BY <1>9, <1>10, <1>11, <1>12, <1>13, <1>14, <1>15, <1>16, <1>17
  DEF Next, Step, Batchcli, Internal, Returns

\* Every step of the innermost file's flags is one of its blocks.
LEMMA FlagsStep ==
  ASSUME BatInv, BatInv', Next, ~Nested, ~NestedDone
  PROVE  BlockStep(Blocks(flags), Blocks(flags'))
<1>1. Sane(flags) /\ Sane(flags')
  BY DEF BatInv
<1>2. BlockStep(Blocks(flags), Blocks(flags)) /\ BlockStep(Blocks(flags), Blocks(NoFlags))
  BY BlocksLeft
<1>3. CASE flags' = flags \/ flags' = NoFlags
  BY <1>2, <1>3
<1>4. CASE Iff
  BY <1>1, <1>4, FlagsDecided
<1>5. CASE Skip \/ ElseOrUnknown
  <2>1. PICK op : op = Op[Cur]
    OBVIOUS
  <2>2. PICK r : r = IffParsing(op)
    OBVIOUS
  <2>3. flags' = r.flags
    BY <1>5, <2>1, <2>2 DEF Skip, ElseOrUnknown
  <2>4. CASE op = "elseiff" /\ ~r.skip
    <3>1. ElseOrUnknown
      BY <1>5, <2>1, <2>2, <2>4 DEF Skip
    <3>2. flags.iff = 0
      BY <2>1, <2>4, <3>1 DEF ElseOrUnknown, Carried
    <3>3. r.flags = flags
      BY <1>1, <2>2, <3>2, Parsed
    <3> QED
      BY <1>2, <2>3, <3>3
  <2>5. CASE op = "elseiff" => r.skip
    BY <1>1, <2>2, <2>3, <2>5, FlagsParsed
  <2> QED
    BY <2>4, <2>5
<1>6. CASE ~Iff /\ ~Skip /\ ~ElseOrUnknown
  <2>1. \/ ReadLine \/ EndOfFile \/ LineDone \/ CommandDone \/ Label
        \/ Program \/ InsertBatch \/ KillBatch
        \/ Goto \/ Gosub \/ ReturnCmd \/ Quit
        \/ Call \/ TooDeep \/ Chain \/ If \/ For
        \/ GosubDone \/ CallDone \/ IfDone \/ ForNext \/ ForDone \/ CtrlC
    BY <1>6 DEF Next, Step, Batchcli, Command, External, Internal, Returns
  <2>2. CASE ReadLine \/ EndOfFile \/ LineDone \/ CommandDone \/ Label \/ Program
             \/ InsertBatch \/ KillBatch
    BY <1>3, <2>2 DEF ReadLine, EndOfFile, LineDone, CommandDone, Label, Program,
       InsertBatch, KillBatch
  <2>3. CASE Goto \/ Gosub \/ ReturnCmd \/ Quit \/ Call \/ TooDeep \/ Chain
    BY <1>3, <2>3 DEF Goto, Gosub, ReturnCmd, Quit, Call, TooDeep, Chain
  <2>4. CASE If \/ For \/ GosubDone \/ CallDone \/ IfDone \/ ForNext \/ ForDone \/ CtrlC
    BY <1>3, <2>4 DEF If, For, GosubDone, CallDone, IfDone, ForNext, ForDone, CtrlC
  <2> QED
    BY <2>1, <2>2, <2>3, <2>4
<1> QED
  BY <1>4, <1>5, <1>6

\* IffLevels, of any stack.
LevelsOf(s, n, fl) ==
    [i \in 1..(n + 1) |-> Blocks(IF i <= n THEN SavedAt(s, i) ELSE fl)]

\* The levels l are those of n files and the innermost one's flags.
LevelsFor(l, s, n, fl) ==
    /\ n \in Nat /\ l \in Seq(Seq(IffRef!BlockState)) /\ Len(l) = n + 1
    /\ \A i \in 1..n : l[i] = Blocks(SavedAt(s, i))
    /\ l[n + 1] = Blocks(fl)

\* So they are.
LEMMA LevelsAre ==
  ASSUME NEW s, StackSane(s), NEW fl, Sane(fl)
  PROVE  LevelsFor(LevelsOf(s, Batches(s, Len(s)), fl), s, Batches(s, Len(s)), fl)
<1>1. s \in Seq(Activation) /\ Len(s) \in Nat
  BY LenProperties DEF StackSane
<1>2. PICK n : n = Batches(s, Len(s))
  OBVIOUS
<1>3. n \in Nat
  BY <1>1, <1>2, BatchesCount
<1>4. ASSUME NEW i \in 1..n
      PROVE  Sane(SavedAt(s, i))
  <2>1. PICK k \in 1..Len(s) : s[k].kind = "batch" /\ Batches(s, k) = i
    BY <1>1, <1>2, SaverThere
  <2>2. SavedAt(s, i) = s[k].save
    BY <1>1, <2>1, SaverOnly
  <2> QED
    BY <2>1, <2>2 DEF StackSane
<1>5. PICK L : L = LevelsOf(s, n, fl)
  OBVIOUS
<1>6. L = [i \in 1..(n + 1) |-> Blocks(IF i <= n THEN SavedAt(s, i) ELSE fl)]
  BY <1>5, Zenon DEF LevelsOf
<1>7. /\ n + 1 \in 1..(n + 1) /\ ~(n + 1 <= n) /\ n + 1 \in Nat
      /\ \A i \in 1..n : i \in 1..(n + 1) /\ i <= n
      /\ \A i \in 1..(n + 1) : i \in 1..n \/ i = n + 1
  BY <1>3
<1>8. \A i \in 1..n : L[i] = Blocks(SavedAt(s, i))
  BY <1>6, <1>7
<1>9. L[n + 1] = Blocks(fl)
  BY <1>6, <1>7
<1>10. \A i \in 1..(n + 1) : L[i] \in Seq(IffRef!BlockState)
  <2>1. ASSUME NEW x, Sane(x)
        PROVE  Blocks(x) \in Seq(IffRef!BlockState)
    BY <2>1, BlocksAre
  <2> QED
    BY <1>4, <1>7, <1>8, <1>9, <2>1
<1>11. DOMAIN L = 1..(n + 1)
  BY <1>6
<1>12. L \in [1..(n + 1) -> Seq(IffRef!BlockState)]
  <2>1. L = [i \in 1..(n + 1) |-> L[i]]
    BY <1>6
  <2> QED
    BY <1>10, <2>1
<1>13. L \in Seq(Seq(IffRef!BlockState)) /\ Len(L) = n + 1
  BY <1>7, <1>12
<1> QED
  BY <1>2, <1>3, <1>5, <1>8, <1>9, <1>13 DEF LevelsFor

\* The flags of the innermost file change.
LEMMA LevelsTurn ==
  ASSUME NEW s, StackSane(s), NEW t, StackSane(t), Outer(s, t),
         NEW fl, Sane(fl), NEW gl, Sane(gl), NEW l, NEW m,
         l = LevelsOf(s, Batches(s, Len(s)), fl),
         m = LevelsOf(t, Batches(t, Len(t)), gl)
  PROVE  /\ l \in Seq(Seq(IffRef!BlockState)) /\ l # <<>>
         /\ Last(l) = Blocks(fl) /\ m = Append(Front(l), Blocks(gl))
<1>1. PICK n : n = Batches(s, Len(s))
  OBVIOUS
<1>2. /\ n \in Nat /\ l \in Seq(Seq(IffRef!BlockState)) /\ Len(l) = n + 1
      /\ l[n + 1] = Blocks(fl)
      /\ \A i \in 1..n : l[i] = Blocks(SavedAt(s, i))
  BY <1>1, LevelsAre DEF LevelsFor
<1>3. /\ Batches(t, Len(t)) = n
      /\ \A i \in 1..n : SavedAt(t, i) = SavedAt(s, i)
  BY <1>1, OuterSaved DEF StackSane
<1>4. /\ m \in Seq(Seq(IffRef!BlockState)) /\ Len(m) = n + 1
      /\ m[n + 1] = Blocks(gl)
      /\ \A i \in 1..n : m[i] = Blocks(SavedAt(t, i))
  BY <1>3, LevelsAre, ZenonT(60) DEF LevelsFor
<1>5. \A i \in 1..n : m[i] = l[i]
  BY <1>2, <1>3, <1>4
<1>6. l # <<>> /\ (n + 1) - 1 = n
  BY <1>2, EmptySeq
<1>7. m = Append(Front(l), m[n + 1])
  <2>1. Len(m) = Len(l) /\ \A i \in 1..(Len(l) - 1) : m[i] = l[i]
    BY <1>2, <1>4, <1>5, <1>6
  <2>2. m = Append(Front(l), m[Len(l)])
    BY <1>2, <1>4, <1>6, <2>1, TopChanged
  <2> QED
    BY <1>2, <2>2
<1>8. Last(l) = l[n + 1]
  BY <1>2 DEF Last
<1> QED
  BY <1>2, <1>4, <1>6, <1>7, <1>8

\* On r stand a call of batch, with flags saved, and another activation.
Nesting(t, r, fl) ==
    /\ Len(t) = Len(r) + 2 /\ \A j \in 1..Len(r) : t[j] = r[j]
    /\ t[Len(r) + 1].kind = "batch" /\ t[Len(r) + 1].save = fl
    /\ t[Len(r) + 2].kind # "batch"

\* A file is called: its flags come on top, the caller's are saved.
LEMMA LevelsEntered ==
  ASSUME NEW s, StackSane(s), NEW r, StackSane(r), Outer(s, r),
         NEW fl, Sane(fl), NEW t, StackSane(t), Nesting(t, r, fl)
  PROVE  LevelsOf(t, Batches(t, Len(t)), NoFlags) =
           Append(LevelsOf(s, Batches(s, Len(s)), fl), <<>>)
<1> PICK l, m : /\ l = LevelsOf(s, Batches(s, Len(s)), fl)
                /\ m = LevelsOf(t, Batches(t, Len(t)), NoFlags)
  OBVIOUS
<1> SUFFICES m = Append(l, <<>>)
  OBVIOUS
<1>1. PICK n, k : n = Batches(s, Len(s)) /\ k = Len(r)
  OBVIOUS
<1>2. s \in Seq(Activation) /\ r \in Seq(Activation) /\ t \in Seq(Activation)
  BY DEF StackSane
<1>3. k \in Nat /\ Len(s) \in Nat
  BY <1>1, <1>2, LenProperties
<1>4. /\ n \in Nat /\ l \in Seq(Seq(IffRef!BlockState)) /\ Len(l) = n + 1
      /\ l[n + 1] = Blocks(fl)
      /\ \A i \in 1..n : l[i] = Blocks(SavedAt(s, i))
  BY <1>1, LevelsAre DEF LevelsFor
<1>5. /\ Batches(r, k) = n
      /\ \A i \in 1..n : SavedAt(r, i) = SavedAt(s, i)
  BY <1>1, <1>2, OuterSaved
<1>6. /\ t[k + 1].kind = "batch" /\ t[k + 1].save = fl
      /\ t[(k + 1) + 1].kind # "batch" /\ Len(t) = (k + 1) + 1
      /\ k <= Len(r) /\ k <= Len(t) /\ k + 1 \in 1..Len(t) /\ k + 1 \in Nat
      /\ \A j \in 1..k : t[j] = r[j]
  <2>1. (k + 1) + 1 = k + 2
    BY <1>3
  <2> QED
    BY <1>1, <1>3, <2>1 DEF Nesting
<1>7. Batches(t, k) = n
  BY <1>3, <1>5, <1>6, BatchesSame
<1>8. Batches(t, k + 1) = n + 1
  BY <1>3, <1>6, <1>7, BatchesCount
<1>9. Batches(t, Len(t)) = n + 1
  <2>1. PICK j : j = k + 1
    OBVIOUS
  <2>2. j \in Nat /\ t[j + 1].kind # "batch" /\ Len(t) = j + 1
    BY <1>6, <2>1
  <2>3. Batches(t, j + 1) = Batches(t, j)
    BY <2>2, BatchesCount
  <2> QED
    BY <1>8, <2>1, <2>2, <2>3
<1>10. SavedAt(t, n + 1) = fl
  <2>1. t[k + 1].kind = "batch" /\ t[k + 1].save = fl
    BY <1>6
  <2>2. SavedAt(t, Batches(t, k + 1)) = t[k + 1].save
    BY <1>2, <1>6, <2>1, SaverOnly
  <2> QED
    BY <1>8, <2>1, <2>2
<1>11. \A i \in 1..n : SavedAt(t, i) = SavedAt(s, i)
  <2> SUFFICES ASSUME NEW i \in 1..n
               PROVE  SavedAt(t, i) = SavedAt(s, i)
    OBVIOUS
  <2>1. i \in 1..Batches(r, k)
    BY <1>5
  <2>2. SavedAt(t, i) = SavedAt(r, i)
    BY <1>1, <1>2, <1>3, <1>6, <2>1, SavedSame
  <2> QED
    BY <1>5, <2>2
<1>12. Sane(NoFlags)
  BY DEF NoFlags, Sane
<1>13. /\ m \in Seq(Seq(IffRef!BlockState)) /\ Len(m) = (n + 1) + 1
       /\ m[(n + 1) + 1] = Blocks(NoFlags)
       /\ \A i \in 1..(n + 1) : m[i] = Blocks(SavedAt(t, i))
  <2>1. PICK d : d = Batches(t, Len(t))
    OBVIOUS
  <2>2. /\ m \in Seq(Seq(IffRef!BlockState)) /\ Len(m) = d + 1
        /\ m[d + 1] = Blocks(NoFlags)
        /\ \A i \in 1..d : m[i] = Blocks(SavedAt(t, i))
    BY <1>12, <2>1, LevelsAre DEF LevelsFor
  <2> QED
    BY <1>9, <2>1, <2>2
<1>14. /\ \A i \in 1..n : i \in 1..(n + 1)
       /\ \A i \in 1..(n + 1) : i \in 1..n \/ i = n + 1
       /\ n + 1 \in 1..(n + 1)
  BY <1>4
<1>15. \A i \in 1..(n + 1) : m[i] = l[i]
  BY <1>4, <1>10, <1>11, <1>13, <1>14
<1>16. m = Append(l, m[(n + 1) + 1])
  <2>1. Len(m) = Len(l) + 1 /\ \A i \in 1..Len(l) : m[i] = l[i]
    BY <1>4, <1>13, <1>15
  <2>2. m = Append(l, m[Len(l) + 1])
    BY <1>4, <1>13, <2>1, TopAdded
  <2> QED
    BY <1>4, <2>2
<1> QED
  BY <1>13, <1>16, BlocksLeft

\* A file is done: the caller has its flags back.
LEMMA LevelsLeft ==
  ASSUME NEW s, StackSane(s), s # <<>>, Last(s).kind = "batch",
         NEW t, t = Front(s), StackSane(t), NEW fl, Sane(fl),
         NEW l, NEW m,
         l = LevelsOf(s, Batches(s, Len(s)), fl),
         m = LevelsOf(t, Batches(t, Len(t)), Last(s).save)
  PROVE  Len(l) > 1 /\ m = Front(l)
<1>1. PICK k : k = Len(s) - 1
  OBVIOUS
<1>2. /\ s \in Seq(Activation) /\ t \in Seq(Activation)
      /\ Len(s) \in Nat \ {0} /\ Len(t) = k
      /\ \A i \in 1..k : t[i] = s[i]
      /\ Last(s) = s[Len(s)]
  BY <1>1, Popped, SMTT(30) DEF StackSane
<1>3. k \in Nat /\ Len(s) = k + 1 /\ k + 1 \in 1..Len(s) /\ k <= Len(t) /\ k <= Len(s)
  BY <1>1, <1>2
<1>4. PICK n : n = Batches(t, Len(t))
  OBVIOUS
<1>5. n \in Nat /\ Batches(s, k) = n
  <2>1. Batches(s, k) = Batches(t, k)
    BY <1>2, <1>3, BatchesSame
  <2>2. Batches(t, k) \in Nat
    BY <1>3, BatchesCount
  <2> QED
    BY <1>2, <1>4, <2>1, <2>2
<1>6. Batches(s, Len(s)) = n + 1
  <2>1. s[k + 1].kind = "batch"
    BY <1>2, <1>3
  <2>2. Batches(s, k + 1) = Batches(s, k) + 1
    BY <1>3, <2>1, BatchesCount
  <2> QED
    BY <1>3, <1>5, <2>2
<1>7. SavedAt(s, n + 1) = Last(s).save /\ Sane(Last(s).save)
  <2>1. SavedAt(s, Batches(s, k + 1)) = s[k + 1].save
    BY <1>2, <1>3, SaverOnly
  <2>2. Sane(s[k + 1].save)
    BY <1>2, <1>3 DEF StackSane
  <2> QED
    BY <1>2, <1>3, <1>6, <2>1, <2>2
<1>8. \A i \in 1..n : SavedAt(t, i) = SavedAt(s, i)
  <2> SUFFICES ASSUME NEW i \in 1..n
               PROVE  SavedAt(t, i) = SavedAt(s, i)
    OBVIOUS
  <2>1. i \in 1..Batches(s, k)
    BY <1>5
  <2> QED
    BY <1>2, <1>3, <2>1, SavedSame
<1>9. /\ l \in Seq(Seq(IffRef!BlockState)) /\ Len(l) = (n + 1) + 1
      /\ \A i \in 1..(n + 1) : l[i] = Blocks(SavedAt(s, i))
  BY <1>6, LevelsAre DEF LevelsFor
<1>10. /\ m \in Seq(Seq(IffRef!BlockState)) /\ Len(m) = n + 1
       /\ m[n + 1] = Blocks(Last(s).save)
       /\ \A i \in 1..n : m[i] = Blocks(SavedAt(t, i))
  <2>1. PICK x : x = Last(s).save
    OBVIOUS
  <2>2. /\ m \in Seq(Seq(IffRef!BlockState)) /\ Len(m) = n + 1
        /\ m[n + 1] = Blocks(x)
        /\ \A i \in 1..n : m[i] = Blocks(SavedAt(t, i))
    <3>1. Sane(x) /\ m = LevelsOf(t, Batches(t, Len(t)), x)
      BY <1>7, <2>1
    <3>2. StackSane(t)
      OBVIOUS
    <3>3. LevelsFor(LevelsOf(t, Batches(t, Len(t)), x), t, Batches(t, Len(t)), x)
      BY <3>1, <3>2, LevelsAre
    <3>4. LevelsFor(m, t, n, x)
      BY <1>4, <3>1, <3>3
    <3> QED
      BY <3>4 DEF LevelsFor
  <2> QED
    BY <2>1, <2>2
<1>11. /\ \A i \in 1..n : i \in 1..(n + 1)
       /\ \A i \in 1..(n + 1) : i \in 1..n \/ i = n + 1
       /\ n + 1 \in 1..(n + 1)
       /\ ((n + 1) + 1) - 1 = n + 1 /\ (n + 1) + 1 > 1 /\ (n + 1) + 1 # 0
  BY <1>5
<1>12. \A i \in 1..(n + 1) : m[i] = l[i]
  BY <1>7, <1>8, <1>9, <1>10, <1>11
<1>13. l # <<>>
  BY <1>9, <1>11, EmptySeq
<1>14. Len(m) = Len(l) - 1 /\ \A i \in 1..(Len(l) - 1) : m[i] = l[i]
  BY <1>9, <1>10, <1>11, <1>12
<1>15. m = Front(l)
  BY <1>9, <1>10, <1>13, <1>14, TopGone
<1> QED
  BY <1>9, <1>11, <1>15

\* What a step of the blocks of one file is to all of them.
LEMMA BlockSteps ==
  ASSUME IffLevels \in Seq(Seq(IffRef!BlockState)), IffLevels # <<>>,
         NEW q, BlockStep(Last(IffLevels), q),
         IffLevels' = Append(Front(IffLevels), q)
  PROVE  [IffRef!Next]_IffLevels
<1>1. PICK p : p = Last(IffLevels)
  OBVIOUS
<1>2. p = IffRef!blocks /\ IffRef!Become(q)
  BY <1>1 DEF IffRef!blocks, IffRef!Become, Last, Front, IffRef!Last, IffRef!Front
<1>3. CASE q = p
  <2>1. PICK l : l = IffLevels
    OBVIOUS
  <2>2. l \in Seq(Seq(IffRef!BlockState)) /\ l # <<>>
    BY <2>1
  <2>3. Len(l) = Len(l) /\ \A i \in 1..(Len(l) - 1) : l[i] = l[i]
    OBVIOUS
  <2>4. l = Append(Front(l), l[Len(l)])
    BY <2>2, <2>3, TopChanged
  <2>5. l[Len(l)] = p
    BY <1>1, <2>1 DEF Last
  <2>6. IffLevels' = IffLevels
    BY <1>3, <2>1, <2>4, <2>5
  <2> QED
    BY <2>6
<1>4. CASE IffRef!Runs(p) /\ \E x \in {"taken", "waiting"} : q = Append(p, x)
  <2>1. IffRef!Iff
    BY <1>2, <1>4 DEF IffRef!Iff
  <2> QED
    BY <2>1 DEF IffRef!Next
<1>5. CASE ~IffRef!Runs(p) /\ q = Append(p, "ignored")
  <2>1. IffRef!Iff
    BY <1>2, <1>5 DEF IffRef!Iff
  <2> QED
    BY <2>1 DEF IffRef!Next
<1>6. CASE p # <<>> /\ Last(p) = "waiting"
           /\ \E x \in {"taken", "waiting"} : q = Append(Front(p), x)
  <2>1. IffRef!ElseIff
    BY <1>2, <1>6 DEF IffRef!ElseIff, Last, Front, IffRef!Last, IffRef!Front
  <2> QED
    BY <2>1 DEF IffRef!Next
<1>7. CASE p # <<>> /\ Last(p) = "taken" /\ q = Append(Front(p), "over")
  <2>1. IffRef!Else
    BY <1>2, <1>7 DEF IffRef!Else, Last, Front, IffRef!Last, IffRef!Front
  <2> QED
    BY <2>1 DEF IffRef!Next
<1>8. CASE p # <<>> /\ q = Front(p)
  <2>1. IffRef!EndIff
    BY <1>2, <1>8 DEF IffRef!EndIff, Front, IffRef!Front
  <2> QED
    BY <2>1 DEF IffRef!Next
<1>9. CASE q = <<>>
  <2>1. IffRef!LeaveAll
    BY <1>2, <1>9 DEF IffRef!LeaveAll
  <2> QED
    BY <2>1 DEF IffRef!Next
<1> QED
  BY <1>1, <1>3, <1>4, <1>5, <1>6, <1>7, <1>8, <1>9 DEF BlockStep

\* The blocks of all files, by what is saved on the stack.
LEMMA LevelsHere ==
  ASSUME BatInv
  PROVE  IffLevels = LevelsOf(stack, Batches(stack, Len(stack)), flags)
<1>1. Len(frame) = Batches(stack, Len(stack))
  BY DEF BatInv
<1>2. \A i : stack[Saver(i)].save = SavedAt(stack, i)
  BY Zenon DEF Saver, Depth, SavedAt, Batches
<1>3. IffLevels = [i \in 1..(Len(frame) + 1) |->
                     Blocks(IF i <= Len(frame) THEN SavedAt(stack, i) ELSE flags)]
  BY <1>2, Zenon DEF IffLevels
<1> QED
  BY <1>1, <1>3, Zenon DEF LevelsOf

\* And after a step.
LEMMA LevelsThen ==
  ASSUME BatInv'
  PROVE  IffLevels' = LevelsOf(stack', Batches(stack', Len(stack')), flags')
<1>1. Len(frame') = Batches(stack', Len(stack'))
  BY DEF BatInv
<1>2. \A i : stack'[Saver(i)'].save = SavedAt(stack', i)
  BY Zenon DEF Saver, Depth, SavedAt, Batches
<1>3. IffLevels' = [i \in 1..(Len(frame') + 1) |->
                      Blocks(IF i <= Len(frame') THEN SavedAt(stack', i) ELSE flags')]
  BY <1>2, Zenon DEF IffLevels
<1> QED
  BY <1>1, <1>3, Zenon DEF LevelsOf

\* Every step of BATPROC is a step of the blocks, or none.
LEMMA IffStep ==
  ASSUME BatInv, BatInv', [Next]_vars
  PROVE  [IffRef!Next]_IffLevels
<1>1. PICK l, m : l = IffLevels /\ m = IffLevels'
  OBVIOUS
<1>2. /\ l = LevelsOf(stack, Batches(stack, Len(stack)), flags)
      /\ m = LevelsOf(stack', Batches(stack', Len(stack')), flags')
  BY <1>1, LevelsHere, LevelsThen
<1>3. PICK s, t, fl, gl : s = stack /\ t = stack' /\ fl = flags /\ gl = flags'
  OBVIOUS
<1>4. /\ StackSane(s) /\ StackSane(t) /\ Sane(fl) /\ Sane(gl)
      /\ l = LevelsOf(s, Batches(s, Len(s)), fl)
      /\ m = LevelsOf(t, Batches(t, Len(t)), gl)
  BY <1>2, <1>3 DEF BatInv
<1>5. CASE UNCHANGED vars
  <2>1. stack' = stack /\ flags' = flags
    BY <1>5 DEF vars
  <2> QED
    BY <1>1, <1>2, <2>1
<1>6. CASE Nested
  <2>1. /\ AtCommand /\ flags' = NoFlags
        /\ stack' = Append(Append(Rest, [kind |-> "batch", save |-> flags]),
                           [kind |-> "batchcli"])
    BY <1>6 DEF Nested, Carried
  <2>2. StackSane(Rest)
    BY <2>1, RestSane
  <2>3. Outer(stack, Rest)
    <3>1. stack \in Seq(Activation) /\ stack # <<>> /\ Top.kind # "batch"
      BY <2>1, Carrying DEF BatInv, StackSane
    <3>2. Below \in Seq(Activation) /\ Outer(stack, Below)
      BY <3>1, OuterLess DEF Top, Below
    <3>3. PICK e : e = [Top EXCEPT !.rest = Tail(@)]
      OBVIOUS
    <3>4. e \in Activation /\ e.kind = "command"
      <4>1. Top \in Activation /\ Top.kind = "command" /\ Tail(Top.rest) \in Seq(Cmds)
        BY <2>1, <3>1, Carrying, Running
      <4>2. Top \in [kind : {"command"}, rest : Seq(Cmds)]
        BY <4>1 DEF Activation
      <4>3. e \in [kind : {"command"}, rest : Seq(Cmds)]
        BY <3>3, <4>1, <4>2
      <4> QED
        BY <4>3 DEF Activation
    <3> QED
      BY <3>1, <3>2, <3>3, <3>4, OuterMore DEF Rest
  <2>4. PICK r, a, c : /\ r = Rest /\ a = [kind |-> "batch", save |-> fl]
                       /\ c = [kind |-> "batchcli"]
    OBVIOUS
  <2>5. /\ StackSane(r) /\ Outer(s, r) /\ t = Append(Append(r, a), c)
        /\ gl = NoFlags
    BY <1>3, <2>1, <2>2, <2>3, <2>4
  <2>6. r \in Seq(Activation) /\ a \in Activation /\ c \in Activation /\ c.kind # "batch"
    BY <1>4, <2>4, <2>5 DEF Activation, StackSane, Sane, WaitEndIff
  <2>7. /\ a.kind = "batch" /\ a.save = fl
        /\ Len(t) = Len(r) + 2 /\ \A j \in 1..Len(r) : t[j] = r[j]
        /\ t[Len(r) + 1] = a /\ t[Len(r) + 2] = c
    BY <2>4, <2>5, <2>6, PushedTwo
  <2>8. m = LevelsOf(t, Batches(t, Len(t)), NoFlags)
    BY <1>4, <2>5
  <2>9. m = Append(l, <<>>)
    <3>1. LevelsOf(t, Batches(t, Len(t)), NoFlags) =
            Append(LevelsOf(s, Batches(s, Len(s)), fl), <<>>)
      <4>1. Nesting(t, r, fl)
        BY <2>6, <2>7 DEF Nesting
      <4> QED
        BY <1>4, <2>5, <4>1, LevelsEntered
    <3> QED
      BY <1>4, <2>8, <3>1
  <2>10. IffRef!Enter
    BY <1>1, <2>9 DEF IffRef!Enter
  <2> QED
    BY <2>10 DEF IffRef!Next
<1>7. CASE NestedDone
  <2>1. /\ s # <<>> /\ Last(s).kind = "batch" /\ t = Front(s)
        /\ gl = Last(s).save
    BY <1>3, <1>7 DEF NestedDone, Return, Top, Below
  <2>2. m = LevelsOf(t, Batches(t, Len(t)), Last(s).save)
    BY <1>4, <2>1
  <2>3. Len(l) > 1 /\ m = Front(l)
    BY <1>4, <2>1, <2>2, LevelsLeft
  <2>4. IffRef!Exit
    BY <1>1, <2>3 DEF IffRef!Exit, Front, IffRef!Front
  <2> QED
    BY <2>4 DEF IffRef!Next
<1>8. CASE Next /\ ~Nested /\ ~NestedDone
  <2>1. Outer(s, t) /\ BlockStep(Blocks(fl), Blocks(gl))
    BY <1>3, <1>8, OuterStep, FlagsStep
  <2>2. /\ l \in Seq(Seq(IffRef!BlockState)) /\ l # <<>>
        /\ Last(l) = Blocks(fl) /\ m = Append(Front(l), Blocks(gl))
    BY <1>4, <2>1, LevelsTurn, SMTT(30)
  <2>3. PICK q : q = Blocks(gl)
    OBVIOUS
  <2>4. /\ IffLevels \in Seq(Seq(IffRef!BlockState)) /\ IffLevels # <<>>
        /\ BlockStep(Last(IffLevels), q)
        /\ IffLevels' = Append(Front(IffLevels), q)
    BY <1>1, <2>1, <2>2, <2>3
  <2> QED
    BY <2>4, BlockSteps
<1> QED
  BY <1>5, <1>6, <1>7, <1>8

\* No file is run at first, and no block is open.
LEMMA IffStart ==
  ASSUME Init
  PROVE  IffRef!Init
<1>1. BatInv
  BY InitBat
<1>2. /\ stack = <<[kind |-> "command", rest |-> <<Start>>]>>
      /\ frame = <<>> /\ flags = NoFlags
  BY DEF Init
<1>3. Batches(stack, Len(stack)) = 0
  <2>1. Len(frame) = 0
    BY <1>2
  <2> QED
    BY <1>1, <2>1 DEF BatInv
<1>4. /\ IffLevels \in Seq(Seq(IffRef!BlockState))
      /\ Len(IffLevels) = 1 /\ IffLevels[1] = <<>>
  <2>1. PICK l, s, n : l = IffLevels /\ s = stack /\ n = Batches(stack, Len(stack))
    OBVIOUS
  <2>2. StackSane(s) /\ Sane(NoFlags) /\ n = Batches(s, Len(s)) /\ n = 0
    BY <1>1, <1>2, <1>3, <2>1 DEF BatInv
  <2>3. l = LevelsOf(s, n, NoFlags)
    BY <1>1, <1>2, <2>1, LevelsHere
  <2>4. /\ l \in Seq(Seq(IffRef!BlockState)) /\ Len(l) = n + 1
        /\ l[n + 1] = Blocks(NoFlags)
    BY <2>2, <2>3, LevelsAre DEF LevelsFor
  <2> QED
    BY <2>1, <2>2, <2>4, BlocksLeft
<1>5. PICK u : u = << <<>> >>
  OBVIOUS
<1>6. /\ u \in Seq(Seq(IffRef!BlockState)) /\ Len(u) = 1 /\ u[1] = <<>>
  BY <1>5
<1>7. IffLevels = u
  <2>1. PICK l : l = IffLevels
    OBVIOUS
  <2>2. \A i \in 1..1 : l[i] = u[i]
    BY <1>4, <1>6, <2>1
  <2>3. l \in Seq(Seq(IffRef!BlockState)) /\ Len(l) = 1
    BY <1>4, <2>1
  <2>4. l = u
    BY <1>6, <2>2, <2>3, SeqEqual
  <2> QED
    BY <2>1, <2>4
<1> QED
  BY <1>5, <1>7 DEF IffRef!Init

\* IFF, ELSE, ELSEIFF and ENDIFF are blocks that nest, file by file: the three
\* counters of BATCH.C and what batch saves of them implement IffBlocks, for all
\* batch files, and whatever GOTO, GOSUB, FOR and Ctrl-C do between.
THEOREM IffRefines == Spec => IffNests
<1>1. Spec => []BatInv
  BY BatAlways
<1>2. BatInv /\ BatInv' /\ [Next]_vars => [IffRef!Next]_IffLevels
  BY IffStep
<1>3. Init => IffRef!Init
  BY IffStart
<1> QED
  BY <1>1, <1>2, <1>3, PTL DEF Spec, IffNests, IffRef!Spec

-----------------------------------------------------------------------------
(* Files that have been ended. *)

\* The functions that a line runs in, as against those that read lines.
LineKinds == {"command", "call", "if", "for"}
InLine(s, k) == \A j \in k..Len(s) : s[j].kind \in LineKinds

\* What is left of a line sets the place of reading; an activation may come to
\* run other lines.
Movers(rest) == \E j \in 1..Len(rest) : Moves(rest[j])
MayRunLines(a) ==
    \/ a.kind = "command" /\ \E j \in 1..Len(a.rest) : RunsLines(a.rest[j])
    \/ a.kind = "for" /\ RunsLines(a.body)

\* NoGotoAfterCall, of what is left of a line.
RestOrderly(rest) ==
    \A i, j \in 1..Len(rest) : i < j /\ RunsLines(rest[i]) => ~Moves(rest[j])

\* Lines that have other lines run on top of them do not set the place any more;
\* those that may yet set it run nothing that runs other lines.
Orderly(s) ==
    \A k \in 1..Len(s) : s[k].kind = "command" =>
        /\ RestOrderly(s[k].rest)
        /\ Movers(s[k].rest) =>
              InLine(s, k) /\ \A j \in (k + 1)..Len(s) : ~MayRunLines(s[j])

\* Nothing that is left of the line sets the place of reading, ...
Quiet(s) ==
    \A k \in 1..Len(s) : s[k].kind = "command" /\ InLine(s, k) => ~Movers(s[k].rest)

\* ... but for a batch file that CALL has just been asked for.
Still(s, cf) ==
    \A k \in 1..Len(s) :
        s[k].kind = "command" /\ InLine(s, k) /\ Movers(s[k].rest) =>
            k = Len(s) /\ cf = TRUE /\ Len(s[k].rest) = 1 /\ Op[s[k].rest[1]] = "batch"

Ends(frames) == frames # <<>> /\ Last(frames).read_offset = Ended

EndedParts(s, frames, r, cf) ==
    Orderly(s) /\ (Ends(frames) /\ r # "abort" => Still(s, cf))

EndedInv == NoGotoAfterCall => EndedParts(stack, frame, rv, call_flag)

\* A function that reads lines is the innermost one: no line is being run.
LEMMA LineNone ==
  ASSUME NEW s, s \in Seq(Activation), s # <<>>, Last(s).kind \notin LineKinds
  PROVE  (\A k \in 1..Len(s) : ~InLine(s, k)) /\ Quiet(s)
<1>1. PICK n : n = Len(s)
  OBVIOUS
<1>2. n \in Nat \ {0} /\ Last(s) = s[n]
  BY <1>1, Popped
<1>3. \A k \in 1..n : n \in k..n
  BY <1>2
<1>4. \A k \in 1..n : ~InLine(s, k)
  BY <1>1, <1>2, <1>3 DEF InLine
<1> QED
  BY <1>1, <1>4 DEF Quiet

\* Quiet is still.
LEMMA QuietStill ==
  ASSUME NEW s, Quiet(s), NEW cf
  PROVE  Still(s, cf)
BY DEF Quiet, Still

\* A line goes on where it was when a function returns into it.
LEMMA LineBelow ==
  ASSUME NEW s, s \in Seq(Activation), s # <<>>, Last(s).kind \in LineKinds,
         NEW k \in 1..(Len(s) - 1)
  PROVE  InLine(Front(s), k) <=> InLine(s, k)
<1>1. PICK n, t : n = Len(s) - 1 /\ t = Front(s)
  OBVIOUS
<1>2. /\ n \in Nat /\ Len(s) = n + 1 /\ Len(t) = n
      /\ \A i \in 1..n : t[i] = s[i]
      /\ Last(s) = s[n + 1]
  BY <1>1, Popped
<1>3. /\ \A j \in k..n : j \in 1..n /\ j \in k..(n + 1)
      /\ \A j \in k..(n + 1) : j \in k..n \/ j = n + 1
  BY <1>1, <1>2
<1>4. InLine(t, k) <=> \A j \in k..n : t[j].kind \in LineKinds
  BY <1>2 DEF InLine
<1>5. InLine(s, k) <=> \A j \in k..(n + 1) : s[j].kind \in LineKinds
  BY <1>2 DEF InLine
<1>6. InLine(t, k) <=> InLine(s, k)
  BY <1>2, <1>3, <1>4, <1>5
<1> QED
  BY <1>1, <1>6

\* A function returns.
LEMMA OrderlyLess ==
  ASSUME NEW s, s \in Seq(Activation), s # <<>>, Orderly(s)
  PROVE  Orderly(Front(s))
<1>1. PICK n, t : n = Len(s) - 1 /\ t = Front(s)
  OBVIOUS
<1>2. /\ n \in Nat /\ Len(s) = n + 1 /\ Len(t) = n
      /\ \A i \in 1..n : t[i] = s[i]
  BY <1>1, Popped
<1>3. \A i \in 1..n : i \in 1..(n + 1)
  BY <1>2
<1> SUFFICES ASSUME NEW k \in 1..n, t[k].kind = "command"
             PROVE  /\ RestOrderly(t[k].rest)
                    /\ Movers(t[k].rest) =>
                         InLine(t, k) /\ \A j \in (k + 1)..n : ~MayRunLines(t[j])
  BY <1>1, <1>2 DEF Orderly
<1>4. t[k] = s[k] /\ k \in 1..Len(s)
  BY <1>2, <1>3
<1>5. /\ RestOrderly(s[k].rest)
      /\ Movers(s[k].rest) =>
           InLine(s, k) /\ \A j \in (k + 1)..(n + 1) : ~MayRunLines(s[j])
  BY <1>2, <1>4 DEF Orderly
<1> SUFFICES ASSUME Movers(s[k].rest)
             PROVE  InLine(t, k) /\ \A j \in (k + 1)..n : ~MayRunLines(t[j])
  BY <1>4, <1>5
<1>6. Last(s).kind \in LineKinds
  BY <1>4, <1>5, LineNone
<1>7. InLine(t, k)
  BY <1>1, <1>5, <1>6, LineBelow
<1>8. \A j \in (k + 1)..n : j \in 1..n /\ j \in (k + 1)..(n + 1)
  BY <1>2
<1> QED
  BY <1>2, <1>5, <1>7, <1>8

\* Then nothing that is left sets the place, if no more was to do it before, or
\* lines were read.
LEMMA QuietLess ==
  ASSUME NEW s, s \in Seq(Activation), s # <<>>, Orderly(s), NEW cf,
         Last(s).kind \notin LineKinds \/ Still(s, cf)
  PROVE  Quiet(Front(s))
<1>1. PICK n, t : n = Len(s) - 1 /\ t = Front(s)
  OBVIOUS
<1>2. /\ n \in Nat /\ Len(s) = n + 1 /\ Len(t) = n
      /\ \A i \in 1..n : t[i] = s[i]
  BY <1>1, Popped
<1>3. \A i \in 1..n : i \in 1..(n + 1) /\ i # n + 1
  BY <1>2
<1> SUFFICES ASSUME NEW k \in 1..n, t[k].kind = "command", InLine(t, k),
                    Movers(t[k].rest)
             PROVE  FALSE
  BY <1>1, <1>2 DEF Quiet
<1>4. t[k] = s[k] /\ k \in 1..Len(s) /\ k # Len(s)
  BY <1>2, <1>3
<1>5. InLine(s, k)
  BY <1>4 DEF Orderly
<1>6. Still(s, cf)
  BY <1>4, <1>5, LineNone
<1> QED
  BY <1>4, <1>5, <1>6 DEF Still

\* What is left after the first command of a line.
LEMMA RestLess ==
  ASSUME NEW rest \in Seq(Cmds), rest # <<>>, RestOrderly(rest)
  PROVE  /\ RestOrderly(Tail(rest))
         /\ Movers(Tail(rest)) => /\ Movers(rest) /\ ~RunsLines(Head(rest))
                                  /\ Len(rest) # 1
         /\ \A j \in 1..Len(Tail(rest)) :
              \E i \in 1..Len(rest) : Tail(rest)[j] = rest[i]
         /\ Head(rest) = rest[1] /\ 1 \in 1..Len(rest)
<1>1. PICK n, t : n = Len(rest) - 1 /\ t = Tail(rest)
  OBVIOUS
<1>2. /\ n \in Nat /\ Len(rest) = n + 1 /\ Len(t) = n /\ Head(rest) = rest[1]
      /\ \A i \in 1..n : t[i] = rest[i + 1]
  <2>1. Len(rest) \in Nat \ {0}
    BY EmptySeq
  <2>2. /\ Len(Tail(rest)) = Len(rest) - 1 /\ Head(rest) = rest[1]
        /\ \A i \in 1..(Len(rest) - 1) : Tail(rest)[i] = rest[i + 1]
    OBVIOUS
  <2> QED
    BY <1>1, <2>1, <2>2
<1>3. /\ \A i \in 1..n : i + 1 \in 1..(n + 1) /\ 1 < i + 1 /\ n + 1 # 1
      /\ \A i, j \in 1..n : i < j => i + 1 < j + 1
      /\ 1 \in 1..(n + 1)
  BY <1>2
<1>4. \A i, j \in 1..(n + 1) : i < j /\ RunsLines(rest[i]) => ~Moves(rest[j])
  BY <1>2 DEF RestOrderly
<1>5. RestOrderly(t)
  <2> SUFFICES ASSUME NEW i \in 1..n, NEW j \in 1..n, i < j, RunsLines(t[i])
               PROVE  ~Moves(t[j])
    BY <1>2 DEF RestOrderly
  <2>1. /\ i + 1 \in 1..(n + 1) /\ j + 1 \in 1..(n + 1) /\ i + 1 < j + 1
        /\ t[i] = rest[i + 1] /\ t[j] = rest[j + 1]
    BY <1>2, <1>3
  <2> QED
    BY <1>4, <2>1
<1>6. ASSUME Movers(t)
      PROVE  Movers(rest) /\ ~RunsLines(Head(rest)) /\ Len(rest) # 1
  <2>1. PICK j \in 1..n : Moves(t[j])
    BY <1>2, <1>6 DEF Movers
  <2>2. j + 1 \in 1..(n + 1) /\ 1 < j + 1 /\ t[j] = rest[j + 1] /\ n + 1 # 1
    BY <1>2, <1>3
  <2>3. ~RunsLines(rest[1])
    BY <1>3, <1>4, <2>1, <2>2
  <2> QED
    BY <1>2, <2>1, <2>2, <2>3 DEF Movers
<1>7. \A j \in 1..Len(t) : \E i \in 1..Len(rest) : t[j] = rest[i]
  BY <1>2, <1>3
<1> QED
  BY <1>1, <1>2, <1>3, <1>5, <1>6, <1>7

\* The line goes on with less to do.
LEMMA OrderlyRetop ==
  ASSUME NEW s, s \in Seq(Activation), s # <<>>, Orderly(s), NEW e \in Activation,
         Last(s).kind \in LineKinds, e.kind \in LineKinds,
         MayRunLines(e) => MayRunLines(Last(s)),
         e.kind = "command" =>
             /\ Last(s).kind = "command" /\ RestOrderly(e.rest)
             /\ Movers(e.rest) => Movers(Last(s).rest)
  PROVE  Orderly(Append(Front(s), e)) /\ Append(Front(s), e) \in Seq(Activation)
<1>1. PICK n, t : n = Len(s) - 1 /\ t = Append(Front(s), e)
  OBVIOUS
<1>2. /\ n \in Nat /\ Len(s) = n + 1 /\ Len(t) = n + 1
      /\ \A i \in 1..n : t[i] = s[i]
      /\ t[n + 1] = e /\ t \in Seq(Activation)
  BY <1>1, Retopped
<1>3. Last(s) = s[n + 1]
  BY <1>1, <1>2, Popped
<1>4. \A i \in 1..(n + 1) : i = n + 1 \/ i \in 1..n
  BY <1>2
<1>5. ASSUME NEW k \in 1..(n + 1)
      PROVE  InLine(t, k) <=> InLine(s, k)
  <2>1. \A j \in k..(n + 1) : j = n + 1 \/ j \in 1..n
    BY <1>2
  <2>2. \A j \in k..(n + 1) : t[j].kind \in LineKinds <=> s[j].kind \in LineKinds
    BY <1>2, <1>3, <2>1
  <2> QED
    BY <1>2, <2>2 DEF InLine
<1> SUFFICES ASSUME NEW k \in 1..(n + 1), t[k].kind = "command"
             PROVE  /\ RestOrderly(t[k].rest)
                    /\ Movers(t[k].rest) =>
                         InLine(t, k) /\ \A j \in (k + 1)..(n + 1) : ~MayRunLines(t[j])
  BY <1>1, <1>2 DEF Orderly
<1>6. s[k].kind = "command" =>
        /\ RestOrderly(s[k].rest)
        /\ Movers(s[k].rest) =>
             InLine(s, k) /\ \A j \in (k + 1)..(n + 1) : ~MayRunLines(s[j])
  BY <1>2 DEF Orderly
<1>7. CASE k = n + 1
  <2>1. \A j \in (k + 1)..(n + 1) : FALSE
    BY <1>2, <1>7
  <2> QED
    BY <1>2, <1>3, <1>5, <1>6, <1>7, <2>1
<1>8. CASE k \in 1..n
  <2>1. t[k] = s[k]
    BY <1>2, <1>8
  <2>2. ASSUME Movers(s[k].rest), NEW j \in (k + 1)..(n + 1)
        PROVE  ~MayRunLines(t[j])
    <3>1. ~MayRunLines(s[j])
      BY <1>6, <2>1, <2>2
    <3>2. j = n + 1 \/ j \in 1..n
      BY <1>2, <1>8
    <3> QED
      BY <1>2, <1>3, <3>1, <3>2
  <2> QED
    BY <1>5, <1>6, <2>1, <2>2
<1> QED
  BY <1>4, <1>7, <1>8

\* It does not come to set the place by that.
LEMMA QuietRetop ==
  ASSUME NEW s, s \in Seq(Activation), s # <<>>, NEW cf, Still(s, cf),
         NEW e \in Activation, Last(s).kind = "command", e.kind = "command",
         Movers(e.rest) => Movers(Last(s).rest) /\ Len(Last(s).rest) # 1
  PROVE  Quiet(Append(Front(s), e))
<1>1. PICK n, t : n = Len(s) - 1 /\ t = Append(Front(s), e)
  OBVIOUS
<1>2. /\ n \in Nat /\ Len(s) = n + 1 /\ Len(t) = n + 1
      /\ \A i \in 1..n : t[i] = s[i]
      /\ t[n + 1] = e
  BY <1>1, Retopped
<1>3. Last(s) = s[n + 1]
  BY <1>1, <1>2, Popped, ZenonT(60)
<1>4. \A i \in 1..(n + 1) : i = n + 1 \/ (i \in 1..n /\ i # n + 1)
  BY <1>2
<1> SUFFICES ASSUME NEW k \in 1..(n + 1), t[k].kind = "command", InLine(t, k),
                    Movers(t[k].rest)
             PROVE  FALSE
  BY <1>1, <1>2 DEF Quiet
<1>5. InLine(s, k)
  <2>1. \A j \in k..(n + 1) : j = n + 1 \/ j \in 1..n
    BY <1>2
  <2>2. \A j \in k..(n + 1) : t[j].kind \in LineKinds => s[j].kind \in LineKinds
    BY <1>2, <1>3, <2>1 DEF LineKinds
  <2> QED
    BY <1>2, <2>2 DEF InLine
<1>6. CASE k = n + 1
  BY <1>2, <1>3, <1>5, <1>6 DEF Still
<1>7. CASE k \in 1..n /\ k # n + 1
  BY <1>2, <1>5, <1>7 DEF Still
<1> QED
  BY <1>4, <1>6, <1>7

\* A function is called in the line.
LEMMA OrderlyMore ==
  ASSUME NEW s, s \in Seq(Activation), Orderly(s), NEW e \in Activation,
         e.kind \in LineKinds, e.kind = "command" => RestOrderly(e.rest),
         \A k \in 1..Len(s) :
             s[k].kind = "command" /\ Movers(s[k].rest) => ~MayRunLines(e)
  PROVE  Orderly(Append(s, e)) /\ Append(s, e) \in Seq(Activation)
<1>1. PICK n, t : n = Len(s) /\ t = Append(s, e)
  OBVIOUS
<1>2. /\ n \in Nat /\ Len(t) = n + 1 /\ t \in Seq(Activation)
      /\ \A i \in 1..n : t[i] = s[i]
      /\ t[n + 1] = e
  BY <1>1, Pushed
<1>3. \A i \in 1..(n + 1) : i = n + 1 \/ i \in 1..n
  BY <1>2
<1> SUFFICES ASSUME NEW k \in 1..(n + 1), t[k].kind = "command"
             PROVE  /\ RestOrderly(t[k].rest)
                    /\ Movers(t[k].rest) =>
                         InLine(t, k) /\ \A j \in (k + 1)..(n + 1) : ~MayRunLines(t[j])
  BY <1>1, <1>2 DEF Orderly
<1>4. CASE k = n + 1
  <2>1. \A j \in (k + 1)..(n + 1) : FALSE
    BY <1>2, <1>4
  <2>2. \A j \in k..(n + 1) : j = n + 1
    BY <1>2, <1>4
  <2>3. InLine(t, k)
    BY <1>2, <2>2 DEF InLine
  <2> QED
    BY <1>2, <1>4, <2>1, <2>3
<1>5. CASE k \in 1..n
  <2>1. t[k] = s[k]
    BY <1>2, <1>5
  <2>2. /\ RestOrderly(s[k].rest)
        /\ Movers(s[k].rest) =>
             InLine(s, k) /\ \A j \in (k + 1)..n : ~MayRunLines(s[j])
    BY <1>1, <1>5, <2>1 DEF Orderly
  <2>3. ASSUME Movers(s[k].rest)
        PROVE  InLine(t, k) /\ \A j \in (k + 1)..(n + 1) : ~MayRunLines(t[j])
    <3>1. /\ \A j \in k..(n + 1) : j = n + 1 \/ (j \in 1..n /\ j \in k..n)
          /\ \A j \in (k + 1)..(n + 1) : j = n + 1 \/ (j \in 1..n /\ j \in (k + 1)..n)
      BY <1>2, <1>5
    <3>2. \A j \in k..n : s[j].kind \in LineKinds
      BY <1>1, <2>2, <2>3 DEF InLine
    <3>3. \A j \in k..(n + 1) : t[j].kind \in LineKinds
      BY <1>2, <3>1, <3>2
    <3>4. ~MayRunLines(e)
      BY <1>1, <1>5, <2>1, <2>3
    <3>5. \A j \in (k + 1)..(n + 1) : ~MayRunLines(t[j])
      BY <1>2, <2>2, <2>3, <3>1, <3>4
    <3> QED
      BY <1>2, <3>3, <3>5 DEF InLine
  <2> QED
    BY <2>1, <2>2, <2>3
<1> QED
  BY <1>3, <1>4, <1>5

\* It does not bring anything that sets the place.
LEMMA QuietMore ==
  ASSUME NEW s, s \in Seq(Activation), Quiet(s), NEW e \in Activation,
         e.kind \in LineKinds, NEW cf,
         e.kind = "command" /\ Movers(e.rest) =>
             cf = TRUE /\ Len(e.rest) = 1 /\ Op[e.rest[1]] = "batch"
  PROVE  /\ Still(Append(s, e), cf)
         /\ ~(e.kind = "command" /\ Movers(e.rest)) => Quiet(Append(s, e))
<1>1. PICK n, t : n = Len(s) /\ t = Append(s, e)
  OBVIOUS
<1>2. /\ n \in Nat /\ Len(t) = n + 1
      /\ \A i \in 1..n : t[i] = s[i]
      /\ t[n + 1] = e
  BY <1>1, Pushed
<1>3. \A i \in 1..(n + 1) : i = n + 1 \/ i \in 1..n
  BY <1>2
<1>4. ASSUME NEW k \in 1..n, t[k].kind = "command", InLine(t, k)
      PROVE  ~Movers(t[k].rest)
  <2>1. \A j \in k..n : j \in k..(n + 1) /\ j \in 1..n
    BY <1>2
  <2>2. \A j \in k..(n + 1) : t[j].kind \in LineKinds
    BY <1>2, <1>4 DEF InLine
  <2>3. \A j \in k..n : s[j].kind \in LineKinds
    BY <1>2, <2>1, <2>2
  <2>4. InLine(s, k)
    BY <1>1, <2>3 DEF InLine
  <2> QED
    BY <1>1, <1>2, <1>4, <2>4 DEF Quiet
<1>5. Still(t, cf)
  BY <1>2, <1>3, <1>4 DEF Still
<1>6. ~(e.kind = "command" /\ Movers(e.rest)) => Quiet(t)
  BY <1>2, <1>3, <1>4 DEF Quiet
<1> QED
  BY <1>1, <1>5, <1>6

\* A function that reads lines is called.
LEMMA OrderlyPush ==
  ASSUME NEW s, s \in Seq(Activation), NEW e \in Activation,
         e.kind \notin LineKinds, Orderly(s),
         \A k \in 1..Len(s) : s[k].kind = "command" => ~Movers(s[k].rest)
  PROVE  /\ Orderly(Append(s, e)) /\ Append(s, e) \in Seq(Activation)
         /\ Quiet(Append(s, e))
         /\ \A k \in 1..Len(Append(s, e)) :
              Append(s, e)[k].kind = "command" => ~Movers(Append(s, e)[k].rest)
<1>1. PICK n, t : n = Len(s) /\ t = Append(s, e)
  OBVIOUS
<1>2. /\ n \in Nat /\ Len(t) = n + 1 /\ t \in Seq(Activation)
      /\ \A i \in 1..n : t[i] = s[i]
      /\ t[n + 1] = e /\ t # <<>> /\ Last(t) = e
  BY <1>1, Pushed
<1>3. \A i \in 1..(n + 1) : i = n + 1 \/ i \in 1..n
  BY <1>2
<1>4. e.kind # "command"
  BY DEF LineKinds
<1>5. ASSUME NEW k \in 1..(n + 1), t[k].kind = "command"
      PROVE  RestOrderly(t[k].rest) /\ ~Movers(t[k].rest)
  <2>1. k \in 1..n
    BY <1>2, <1>3, <1>4, <1>5
  <2> QED
    BY <1>1, <1>2, <1>5, <2>1 DEF Orderly
<1>6. Orderly(t)
  BY <1>2, <1>5 DEF Orderly
<1>7. Quiet(t)
  BY <1>2, LineNone
<1> QED
  BY <1>1, <1>2, <1>5, <1>6, <1>7

\* What a command brings to the question: itself, and the one that it runs.
LEMMA CommandSelf ==
  ASSUME NEW c \in Cmds
  PROVE  /\ Op[c] \in {"gosub", "batch"} => RunsLines(c)
         /\ Op[c] \in {"goto", "gosub", "batch", "insert"} => Moves(c)
<1>1. c \in Within[c]
  BY BatchAssumption
<1> QED
  BY <1>1 DEF RunsLines, Moves

\* CALL, IF and FOR do what the command does that they run; CALL of a batch file
\* leaves the place to the frame of its own.
LEMMA RunsBody ==
  ASSUME NEW c \in Cmds, Op[c] \in {"call", "if", "for"}
  PROVE  /\ Body[c] \in Cmds
         /\ RunsLines(Body[c]) => RunsLines(c)
         /\ Moves(Body[c]) => Moves(c) \/ (Op[c] = "call" /\ Op[Body[c]] = "batch")
<1>1. Body[c] \in Cmds /\ Within[c] = {c} \cup Within[Body[c]]
  BY BatchAssumption
<1>2. \A d \in Within[Body[c]] : d \in Within[c]
  BY <1>1
<1> QED
  BY <1>1, <1>2 DEF RunsLines, Moves

\* A line of one command.
LEMMA OneOrderly ==
  ASSUME NEW c \in Cmds, NEW e, e = [kind |-> "command", rest |-> <<c>>]
  PROVE  /\ e \in Activation /\ e.kind = "command" /\ e.kind \in LineKinds
         /\ RestOrderly(e.rest) /\ Len(e.rest) = 1 /\ e.rest[1] = c
         /\ Movers(e.rest) <=> Moves(c)
         /\ MayRunLines(e) <=> RunsLines(c)
<1>1. PICK r : r = <<c>>
  OBVIOUS
<1>2. r \in Seq(Cmds) /\ Len(r) = 1 /\ r[1] = c
  BY <1>1
<1>3. e.rest = r /\ e.kind = "command" /\ e \in Activation
  BY <1>1, <1>2 DEF Activation
<1>4. \A j \in 1..1 : j = 1
  OBVIOUS
<1>5. RestOrderly(r)
  BY <1>2, <1>4 DEF RestOrderly
<1>6. Movers(r) <=> Moves(c)
  BY <1>2, <1>4 DEF Movers
<1>7. MayRunLines(e) <=> RunsLines(c)
  BY <1>2, <1>3, <1>4 DEF MayRunLines
<1> QED
  BY <1>2, <1>3, <1>5, <1>6, <1>7 DEF LineKinds

\* A line without its first command.
LEMMA LineShorter ==
  ASSUME NEW a \in [kind : {"command"}, rest : Seq(Cmds)], NEW r
  PROVE  [a EXCEPT !.rest = r] = [kind |-> "command", rest |-> r]
OBVIOUS

\* The line goes on after the command that is being carried out.  If that runs
\* other lines, nothing that waits sets the place.
LEMMA RestOrder ==
  ASSUME BatInv, AtCommand, Orderly(stack)
  PROVE  /\ Orderly(Rest)
         /\ \A k \in 1..Len(Rest) :
              Rest[k].kind = "command" /\ Movers(Rest[k].rest) => ~RunsLines(Cur)
<1>1. /\ stack # <<>> /\ Top.kind = "command"
      /\ Top.rest \in Seq(Cmds) /\ Top.rest # <<>>
      /\ Tail(Top.rest) \in Seq(Cmds) /\ Len(Rest) = Len(stack)
      /\ \A i \in 1..(Len(stack) - 1) : Rest[i] = stack[i]
      /\ Rest[Len(stack)] = [kind |-> "command", rest |-> Tail(Top.rest)]
  BY Carrying
<1>2. /\ stack \in Seq(Activation) /\ Len(stack) \in Nat \ {0}
      /\ Top = stack[Len(stack)] /\ Top \in Activation
  BY <1>1, Running
<1>3. PICK n \in Nat \ {0} : n = Len(stack)
  BY <1>2
<1>4. PICK e : e = [kind |-> "command", rest |-> Tail(Top.rest)]
  OBVIOUS
<1>5. e.kind = "command" /\ e.rest = Tail(Top.rest) /\ e \in Activation
  BY <1>1, <1>4 DEF Activation
<1>6. Rest = Append(Front(stack), e)
  <2>1. Top \in [kind : {"command"}, rest : Seq(Cmds)]
    BY <1>1, <1>2 DEF Activation
  <2>2. PICK r : r = Tail(Top.rest)
    OBVIOUS
  <2>3. PICK g : g = [Top EXCEPT !.rest = Tail(@)]
    OBVIOUS
  <2>4. Rest = Append(Below, g)
    BY <2>3 DEF Rest
  <2>5. g = e
    BY <1>4, <2>1, <2>2, <2>3, LineShorter
  <2> QED
    BY <2>4, <2>5, Zenon DEF Below
<1>7. RestOrderly(Top.rest)
  <2>1. n \in 1..n
    BY <1>3
  <2> QED
    BY <1>1, <1>2, <1>3, <2>1 DEF Orderly
<1>8. /\ RestOrderly(e.rest)
      /\ Movers(e.rest) => Movers(Top.rest) /\ ~RunsLines(Head(Top.rest))
      /\ \A j \in 1..Len(e.rest) : \E i \in 1..Len(Top.rest) : e.rest[j] = Top.rest[i]
      /\ Head(Top.rest) = Top.rest[1] /\ 1 \in 1..Len(Top.rest)
  BY <1>1, <1>5, <1>7, RestLess
<1>9. MayRunLines(e) => MayRunLines(Top)
  BY <1>1, <1>5, <1>8 DEF MayRunLines
<1>10. Orderly(Rest)
  BY <1>1, <1>2, <1>5, <1>6, <1>8, <1>9, OrderlyRetop DEF Top, LineKinds
<1>11. Cur = Head(Top.rest)
  BY DEF Cur
<1>12. RunsLines(Cur) => MayRunLines(Top)
  BY <1>1, <1>8, <1>11 DEF MayRunLines
<1>13. ASSUME NEW k \in 1..n, Rest[k].kind = "command", Movers(Rest[k].rest)
       PROVE  ~RunsLines(Cur)
  <2>1. CASE k = n
    BY <1>1, <1>3, <1>4, <1>5, <1>8, <1>11, <1>13, <2>1
  <2>2. CASE k # n
    <3>1. k \in 1..(n - 1) /\ n \in (k + 1)..n
      BY <2>2
    <3>2. stack[k].kind = "command" /\ Movers(stack[k].rest)
      BY <1>1, <1>3, <1>13, <3>1
    <3>3. ~MayRunLines(stack[n])
      BY <1>3, <3>1, <3>2 DEF Orderly
    <3> QED
      BY <1>2, <1>3, <1>12, <3>3
  <2> QED
    BY <2>1, <2>2
<1> QED
  BY <1>1, <1>3, <1>10, <1>13

\* In a file that has been ended, only a batch file just CALLed is left, ...
LEMMA RestQuiet ==
  ASSUME BatInv, AtCommand, Orderly(stack), NEW cf, Still(stack, cf)
  PROVE  /\ Quiet(Rest)
         /\ Moves(Cur) => cf = TRUE /\ Op[Cur] = "batch"
<1>1. /\ stack # <<>> /\ Top.kind = "command"
      /\ Top.rest \in Seq(Cmds) /\ Top.rest # <<>>
      /\ Tail(Top.rest) \in Seq(Cmds)
  BY Carrying
<1>2. /\ stack \in Seq(Activation) /\ Len(stack) \in Nat \ {0}
      /\ Top = stack[Len(stack)] /\ Top \in Activation
  BY <1>1, Running
<1>3. PICK n \in Nat \ {0} : n = Len(stack)
  BY <1>2
<1>4. PICK e : e = [kind |-> "command", rest |-> Tail(Top.rest)]
  OBVIOUS
<1>5. e.kind = "command" /\ e.rest = Tail(Top.rest) /\ e \in Activation
  BY <1>1, <1>4 DEF Activation
<1>6. Rest = Append(Front(stack), e)
  <2>1. Top \in [kind : {"command"}, rest : Seq(Cmds)]
    BY <1>1, <1>2 DEF Activation
  <2>2. PICK r : r = Tail(Top.rest)
    OBVIOUS
  <2>3. PICK g : g = [Top EXCEPT !.rest = Tail(@)]
    OBVIOUS
  <2>4. Rest = Append(Below, g)
    BY <2>3 DEF Rest
  <2>5. g = e
    BY <1>4, <2>1, <2>2, <2>3, LineShorter
  <2> QED
    BY <2>4, <2>5, Zenon DEF Below
<1>7. n \in 1..n /\ \A j \in n..n : j = n
  BY <1>3
<1>8. RestOrderly(Top.rest)
  BY <1>1, <1>2, <1>3, <1>7 DEF Orderly
<1>9. /\ Movers(e.rest) => Movers(Top.rest) /\ Len(Top.rest) # 1
      /\ Head(Top.rest) = Top.rest[1] /\ 1 \in 1..Len(Top.rest)
  BY <1>1, <1>5, <1>8, RestLess
<1>10. Quiet(Rest)
  BY <1>1, <1>2, <1>5, <1>6, <1>9, QuietRetop DEF Top
<1>11. ASSUME Moves(Cur)
       PROVE  cf = TRUE /\ Op[Cur] = "batch"
  <2>1. Cur = Top.rest[1]
    BY <1>9 DEF Cur
  <2>2. Movers(Top.rest)
    BY <1>9, <1>11, <2>1 DEF Movers
  <2>3. InLine(stack, n)
    BY <1>1, <1>2, <1>3, <1>7 DEF InLine, LineKinds
  <2>4. /\ stack[n].kind = "command" /\ Movers(stack[n].rest)
        /\ stack[n].rest[1] = Cur
    BY <1>1, <1>2, <1>3, <2>1, <2>2
  <2>5. cf = TRUE /\ Op[stack[n].rest[1]] = "batch"
    BY <1>3, <1>7, <2>3, <2>4 DEF Still
  <2> QED
    BY <2>4, <2>5
<1> QED
  BY <1>10, <1>11

\* The line goes on: no file is ended by that, or the line is.
LEMMA FinishOrderly ==
  ASSUME BatInv, AtCommand, EndedParts(stack, frame, rv, call_flag),
         NEW result, Finish(result),
         Ends(frame') /\ result # "abort" => Ends(frame)
  PROVE  EndedParts(stack', frame', rv', call_flag')
<1>1. rv = "run" /\ stack' = Rest /\ rv' = result
  BY DEF AtCommand, Finish
<1>2. Orderly(stack) /\ (Ends(frame) => Still(stack, call_flag))
  BY <1>1 DEF EndedParts
<1>3. Orderly(Rest)
  BY <1>2, RestOrder
<1>4. Ends(frame') /\ result # "abort" => Quiet(Rest)
  BY <1>2, RestQuiet
<1>5. Ends(frame') /\ result # "abort" => Still(Rest, call_flag')
  BY <1>4, QuietStill
<1> QED
  BY <1>1, <1>3, <1>5 DEF EndedParts

\* A function returns.
LEMMA ReturnOrderly ==
  ASSUME BatInv, stack # <<>>, EndedParts(stack, frame, rv, call_flag),
         stack' = Below,
         \/ Top.kind \notin LineKinds
         \/ frame' = frame /\ (rv' # "abort" => rv # "abort")
  PROVE  EndedParts(stack', frame', rv', call_flag')
<1>1. stack \in Seq(Activation)
  BY DEF BatInv, StackSane
<1>2. Orderly(Front(stack))
  BY <1>1, OrderlyLess DEF EndedParts
<1>3. Ends(frame') /\ rv' # "abort" =>
        Last(stack).kind \notin LineKinds \/ Still(stack, call_flag)
  BY DEF EndedParts, Top
<1>4. Ends(frame') /\ rv' # "abort" => Quiet(Front(stack))
  BY <1>1, <1>3, QuietLess DEF EndedParts
<1>5. Ends(frame') /\ rv' # "abort" => Still(Front(stack), call_flag')
  BY <1>4, QuietStill
<1> QED
  BY <1>2, <1>5 DEF EndedParts, Below

\* A function that reads lines goes on.
LEMMA ReaderOrderly ==
  ASSUME BatInv, stack # <<>>, EndedParts(stack, frame, rv, call_flag),
         Top.kind \notin LineKinds, stack' = stack
  PROVE  EndedParts(stack', frame', rv', call_flag')
<1>1. stack \in Seq(Activation)
  BY DEF BatInv, StackSane
<1>2. Quiet(stack)
  BY <1>1, LineNone DEF Top
<1>3. Still(stack, call_flag')
  BY <1>2, QuietStill
<1> QED
  BY <1>3 DEF EndedParts

\* The innermost frame, when it is another one.
LEMMA EndsWith ==
  ASSUME BatInv, frame # <<>>, NEW fr \in Frame
  PROVE  /\ Ends(WithFrame(fr)) <=> fr.read_offset = Ended
         /\ Ends(frame) <=> bframe.read_offset = Ended
<1>1. frame \in Seq(Frame)
  BY DEF BatInv, FramesSane
<1>2. /\ Append(Front(frame), fr) # <<>>
      /\ Last(Append(Front(frame), fr)) = fr
  BY <1>1, Retopped
<1> QED
  BY <1>2 DEF Ends, WithFrame, bframe

\* EndOfFile, CtrlC, LineDone.
LEMMA BatchcliOrderly ==
  ASSUME BatInv, EndedParts(stack, frame, rv, call_flag),
         EndOfFile \/ CtrlC \/ LineDone
  PROVE  EndedParts(stack', frame', rv', call_flag')
<1>1. stack # <<>> /\ Top.kind \notin LineKinds
  BY DEF EndOfFile, CtrlC, LineDone, InBatchcli, LineKinds
<1>2. stack' = stack \/ stack' = Below
  BY DEF EndOfFile, CtrlC, LineDone, Return
<1> QED
  BY <1>1, <1>2, ReturnOrderly, ReaderOrderly

\* CommandDone, Label, Skip.
LEMMA CommandOrderly ==
  ASSUME BatInv, EndedParts(stack, frame, rv, call_flag), Command
  PROVE  EndedParts(stack', frame', rv', call_flag')
<1>1. CASE CommandDone
  <2>1. stack # <<>> /\ frame' = frame /\ call_flag' = call_flag
    BY <1>1 DEF CommandDone, InCommand
  <2>2. \/ stack' = Below /\ (rv' # "abort" => rv # "abort")
        \/ stack' = stack /\ rv # "abort"
    BY <1>1 DEF CommandDone, Return
  <2>3. CASE stack' = Below /\ (rv' # "abort" => rv # "abort")
    BY <2>1, <2>3, ReturnOrderly
  <2>4. CASE stack' = stack /\ rv # "abort"
    BY <2>1, <2>4 DEF EndedParts
  <2> QED
    BY <2>2, <2>3, <2>4
<1>2. CASE Label
  <2>1. stack # <<>> /\ stack' = Below /\ frame' = frame /\ rv # "abort"
    BY <1>2 DEF Label, AtCommand, InCommand, Return
  <2> QED
    BY <2>1, ReturnOrderly
<1>3. CASE Skip
  <2>1. AtCommand /\ Finish("run") /\ frame' = frame
    BY <1>3 DEF Skip, Finish
  <2> QED
    BY <2>1, FinishOrderly
<1> QED
  BY <1>1, <1>2, <1>3 DEF Command

\* The actions that go on with the line.
LEMMA StayOrderly ==
  ASSUME BatInv, EndedParts(stack, frame, rv, call_flag),
         Program \/ KillBatch \/ InsertBatch \/ Iff \/ ElseOrUnknown \/ TooDeep
           \/ Goto \/ ReturnCmd \/ Quit \/ Chain
  PROVE  EndedParts(stack', frame', rv', call_flag')
<1>1. CASE Program \/ KillBatch \/ Iff \/ ElseOrUnknown \/ TooDeep
  <2>1. AtCommand /\ frame' = frame
    BY <1>1 DEF Program, KillBatch, Iff, ElseOrUnknown, TooDeep, Carried
  <2>2. PICK result : Finish(result)
    BY <1>1 DEF Program, KillBatch, Iff, ElseOrUnknown, TooDeep
  <2> QED
    BY <2>1, <2>2, FinishOrderly
<1>2. CASE InsertBatch
  <2>1. AtCommand
    BY <1>2 DEF InsertBatch, Carried
  <2>2. Finish("abort") \/ (Finish("ok") /\ frame' = frame)
    BY <1>2 DEF InsertBatch
  <2> QED
    BY <2>1, <2>2, FinishOrderly
<1>3. CASE Goto \/ Quit \/ Chain
  <2>1. AtCommand /\ Finish("abort")
    BY <1>3 DEF Goto, Quit, Chain, Carried
  <2> QED
    BY <2>1, FinishOrderly
<1>4. CASE ReturnCmd
  <2>1. /\ AtCommand /\ frame # <<>> /\ bframe \in Frame
        /\ Len(stack) >= 3
    BY <1>4, CarriedOut, Framed DEF ReturnCmd
  <2>2. PICK result : Finish(result)
    BY <1>4 DEF ReturnCmd
  <2>3. CASE frame' = frame
    BY <2>1, <2>2, <2>3, FinishOrderly
  <2>4. CASE frame' # frame
    <3>1. PICK b : b = bframe
      OBVIOUS
    <3>2. PICK g : g = [b EXCEPT !.gsoffset = b.gsoffset - 1]
      OBVIOUS
    <3>3. frame' = WithFrame(g)
      BY <1>4, <2>4, <3>1, <3>2 DEF ReturnCmd
    <3>4. g \in Frame /\ g.read_offset = b.read_offset
      <4>1. PICK x : x = b.gsoffset - 1
        OBVIOUS
      <4>2. b \in Frame /\ x \in Int
        BY <2>1, <3>1, <4>1 DEF Frame
      <4>3. g = [b EXCEPT !.gsoffset = x]
        BY <3>2, <4>1
      <4> QED
        BY <4>2, <4>3 DEF Frame
    <3>5. Ends(frame') => Ends(frame)
      BY <2>1, <3>1, <3>3, <3>4, EndsWith
    <3> QED
      BY <2>1, <2>2, <3>5, FinishOrderly
  <2> QED
    BY <2>3, <2>4
<1> QED
  BY <1>1, <1>2, <1>3, <1>4

\* A line is read, one in which no place is set after other lines are run.
LEMMA ReadOrderly ==
  ASSUME BatInv, EndedParts(stack, frame, rv, call_flag), NoGotoAfterCall, ReadLine
  PROVE  EndedParts(stack', frame', rv', call_flag')
<1>1. /\ stack # <<>> /\ Top.kind = "batchcli"
      /\ bframe.read_offset # Ended /\ ~AtEnd
  BY DEF ReadLine, InBatchcli
<1>2. stack \in Seq(Activation) /\ Len(stack) >= 2
  BY <1>1, Running
<1>3. /\ frame # <<>> /\ bframe \in Frame /\ FrameSane(bframe, text)
  BY <1>2, Framed
<1>4. PICK b, o, c : /\ b = bframe /\ o = b.read_offset
                     /\ c = Commands(b.name, o)
  OBVIOUS
<1>5. /\ b.name \in Files /\ o \in Nat
      /\ text \in [Files -> Seq(Unit)] /\ o < Len(text[b.name])
  <2>1. o \in Int /\ o >= -1 /\ o # -1 /\ b.name \in Files
    BY <1>1, <1>3, <1>4 DEF FrameSane, Frame, Ended
  <2>2. text[b.name] \in Seq(Unit)
    BY <2>1 DEF BatInv
  <2>3. Len(text[b.name]) \in Nat
    BY <2>2, LenProperties
  <2> QED
    BY <1>1, <1>4, <2>1, <2>3 DEF AtEnd, BatInv
<1>6. o + 1 \in DOMAIN text[b.name] /\ c = text[b.name][o + 1].cmds /\ c \in Seq(Cmds)
  <2>1. text[b.name] \in Seq(Unit) /\ Len(text[b.name]) \in Nat
    BY <1>5, LenProperties
  <2>2. o + 1 \in 1..Len(text[b.name])
    BY <1>5, <2>1
  <2>3. o + 1 \in DOMAIN text[b.name] /\ text[b.name][o + 1] \in Unit
    BY <2>1, <2>2, LenProperties, ElementOfSeq
  <2> QED
    BY <1>4, <2>3 DEF Commands, Unit
<1>7. RestOrderly(c)
  <2>1. DOMAIN c = 1..Len(c)
    BY <1>6, LenProperties
  <2>2. \A i, j \in DOMAIN c : i < j /\ RunsLines(c[i]) => ~Moves(c[j])
    BY <1>5, <1>6 DEF NoGotoAfterCall
  <2> QED
    BY <2>1, <2>2 DEF RestOrderly
<1>8. PICK e : e = [kind |-> "command", rest |-> c]
  OBVIOUS
<1>9. e \in Activation /\ e.kind = "command" /\ e.rest = c
  BY <1>6, <1>8 DEF Activation
<1>10. PICK g \in Frame : g = GetLine(b) /\ g.read_offset # Ended
  <2>1. PICK w : w = NextLine(b.name, o)
    OBVIOUS
  <2>2. w \in (o + 1)..Len(text[b.name])
    BY <1>5, <2>1, LineRead
  <2>3. text[b.name] \in Seq(Unit)
    BY <1>5
  <2>4. w \in Nat
    BY <1>5, <2>2, <2>3, LenProperties
  <2>5. PICK x : x = b.line_number + 1
    OBVIOUS
  <2>6. b \in Frame /\ x \in Int
    BY <1>3, <1>4, <2>5 DEF Frame
  <2>7. PICK g : g = [b EXCEPT !.write_offset = o, !.read_offset = w,
                               !.line_number = x]
    OBVIOUS
  <2>8. g \in Frame /\ g.read_offset = w
    <3>1. o \in Nat /\ w \in Int
      BY <1>5, <2>4
    <3> QED
      BY <2>6, <2>7, <3>1 DEF Frame
  <2>9. g = GetLine(b)
    BY <1>4, <2>1, <2>5, <2>7 DEF GetLine
  <2>10. w # Ended
    BY <2>4 DEF Ended
  <2> QED
    BY <2>8, <2>9, <2>10
<1>11. PICK h \in Frame : h = CountLine(g) /\ h.read_offset = g.read_offset
  BY LineCounted
<1>12. /\ frame' = WithFrame(h) /\ stack' = Append(stack, e)
  BY <1>4, <1>8, <1>10, <1>11 DEF ReadLine, EnterCommand
<1>13. ~Ends(frame')
  BY <1>3, <1>10, <1>11, <1>12, EndsWith
<1>14. \A k \in 1..Len(stack) : ~InLine(stack, k)
  BY <1>1, <1>2, LineNone DEF Top, LineKinds
<1>15. \A k \in 1..Len(stack) :
         stack[k].kind = "command" /\ Movers(stack[k].rest) => ~MayRunLines(e)
  BY <1>14 DEF EndedParts, Orderly
<1>16. Orderly(Append(stack, e))
  BY <1>2, <1>7, <1>9, <1>15, OrderlyMore DEF EndedParts, LineKinds
<1> QED
  BY <1>12, <1>13, <1>16 DEF EndedParts

\* The same for the command that CALL, IF and FOR run.
LEMMA BodyOrderly ==
  ASSUME BatInv, Len(stack) >= 2, Orderly(stack),
         NEW s, s \in Seq(Activation), Orderly(s),
         NEW a \in Activation, a.kind \in {"call", "if", "for"},
         NEW c \in Cmds, MayRunLines(a) => RunsLines(c),
         \A k \in 1..Len(s) :
             s[k].kind = "command" /\ Movers(s[k].rest) => ~RunsLines(c),
         EnterCommand(bframe, Append(s, a), <<c>>),
         NEW cf,
         Ends(frame) => /\ Quiet(s)
                        /\ Moves(c) => cf = TRUE /\ Op[c] = "batch"
  PROVE  EndedParts(stack', frame', rv', cf)
<1>1. /\ frame # <<>> /\ bframe \in Frame
  BY Framed
<1>2. PICK g \in Frame : g = CountLine(bframe) /\ g.read_offset = bframe.read_offset
  BY <1>1, LineCounted
<1>3. PICK t, e : t = Append(s, a) /\ e = [kind |-> "command", rest |-> <<c>>]
  OBVIOUS
<1>4. /\ frame' = WithFrame(g) /\ stack' = Append(t, e)
  BY <1>2, <1>3 DEF EnterCommand
<1>5. Ends(frame') <=> Ends(frame)
  BY <1>1, <1>2, <1>4, EndsWith
<1>6. /\ e \in Activation /\ e.kind = "command" /\ e.kind \in LineKinds
      /\ RestOrderly(e.rest) /\ Len(e.rest) = 1 /\ e.rest[1] = c
      /\ Movers(e.rest) <=> Moves(c)
      /\ MayRunLines(e) <=> RunsLines(c)
  BY <1>3, OneOrderly
<1>7. a.kind \in LineKinds /\ a.kind # "command"
  BY DEF LineKinds
<1>8. \A k \in 1..Len(s) :
         s[k].kind = "command" /\ Movers(s[k].rest) => ~MayRunLines(a)
  OBVIOUS
<1>9. Orderly(t) /\ t \in Seq(Activation)
  BY <1>3, <1>7, <1>8, OrderlyMore
<1>10. PICK n \in Nat : n = Len(s)
  BY LenProperties
<1>11. /\ Len(t) = n + 1 /\ t[n + 1] = a
       /\ \A k \in 1..n : t[k] = s[k]
  BY <1>3, <1>10, Pushed
<1>12. \A k \in 1..(n + 1) : k = n + 1 \/ k \in 1..n
  BY <1>10
<1>13. \A k \in 1..Len(t) :
          t[k].kind = "command" /\ Movers(t[k].rest) => ~MayRunLines(e)
  BY <1>6, <1>7, <1>10, <1>11, <1>12
<1>14. Orderly(Append(t, e))
  BY <1>6, <1>9, <1>13, OrderlyMore
<1>15. ASSUME Ends(frame)
       PROVE  Still(Append(t, e), cf)
  <2>1. Quiet(t)
    BY <1>3, <1>7, <1>15, QuietMore
  <2>2. e.kind = "command" /\ Movers(e.rest) =>
            cf = TRUE /\ Len(e.rest) = 1 /\ Op[e.rest[1]] = "batch"
    BY <1>6, <1>15
  <2> QED
    BY <1>6, <1>9, <2>1, <2>2, QuietMore
<1> QED
  BY <1>4, <1>5, <1>14, <1>15 DEF EndedParts

\* Call, If, For.
LEMMA BodiesOrderly ==
  ASSUME BatInv, EndedParts(stack, frame, rv, call_flag), Call \/ If \/ For
  PROVE  EndedParts(stack', frame', rv', call_flag')
<1>1. PICK op \in {"call", "if", "for"} : Carried(op) /\ (op = "call" <=> Call)
  BY DEF Call, If, For, Carried
<1>2. AtCommand /\ Len(stack) >= 3 /\ Op[Cur] = op
  BY <1>1, CarriedOut
<1>3. Cur \in Cmds
  BY <1>2, Carrying
<1>4. CASE Finish("ok") /\ frame' = frame
  BY <1>2, <1>4, FinishOrderly
<1>5. ASSUME NEW a \in Activation, a.kind \in {"call", "if", "for"},
             MayRunLines(a) => RunsLines(Body[Cur]), RunBody(a, Body[Cur]),
             Op[Cur] = "call" => call_flag' = TRUE
      PROVE  EndedParts(stack', frame', rv', call_flag')
  <2>1. PICK c : c = Body[Cur]
    OBVIOUS
  <2>2. /\ c \in Cmds
        /\ RunsLines(c) => RunsLines(Cur)
        /\ Moves(c) => Moves(Cur) \/ (Op[Cur] = "call" /\ Op[c] = "batch")
    BY <1>2, <1>3, <2>1, RunsBody
  <2>3. rv = "run"
    BY <1>2 DEF AtCommand
  <2>4. Orderly(stack) /\ (Ends(frame) => Still(stack, call_flag))
    BY <2>3 DEF EndedParts
  <2>5. PICK s : s = Rest
    OBVIOUS
  <2>6. /\ s \in Seq(Activation) /\ Orderly(s)
        /\ \A k \in 1..Len(s) :
              s[k].kind = "command" /\ Movers(s[k].rest) => ~RunsLines(c)
    BY <1>2, <2>2, <2>4, <2>5, RestOrder, Carrying
  <2>7. ASSUME Ends(frame)
        PROVE  Quiet(s) /\ (Moves(c) => call_flag' = TRUE /\ Op[c] = "batch")
    <3>1. /\ Quiet(s)
          /\ Moves(Cur) => call_flag = TRUE /\ Op[Cur] = "batch"
      BY <1>2, <2>4, <2>5, <2>7, RestQuiet
    <3>2. ~Moves(Cur)
      BY <1>2, <3>1
    <3> QED
      BY <1>5, <2>2, <3>1, <3>2
  <2>8. EnterCommand(bframe, Append(s, a), <<c>>) /\ Len(stack) >= 2
    <3>1. Len(stack) \in Nat
      BY Lengths
    <3> QED
      BY <1>2, <1>5, <2>1, <2>5, <3>1 DEF RunBody
  <2>9. MayRunLines(a) => RunsLines(c)
    BY <1>5, <2>1
  <2>10. PICK cf : cf = call_flag'
    OBVIOUS
  <2>11. Ends(frame) => Quiet(s) /\ (Moves(c) => cf = TRUE /\ Op[c] = "batch")
    BY <2>7, <2>10
  <2>12. EndedParts(stack', frame', rv', cf)
    BY <1>5, <2>2, <2>4, <2>6, <2>8, <2>9, <2>11, BodyOrderly
  <2> QED
    BY <2>10, <2>12
<1>6. CASE Call
  <2>1. PICK a : a = [kind |-> "call"]
    OBVIOUS
  <2>2. a \in Activation /\ a.kind = "call" /\ ~MayRunLines(a)
    BY <2>1 DEF Activation, MayRunLines
  <2>3. RunBody(a, Body[Cur]) /\ call_flag' = TRUE
    BY <1>6, <2>1 DEF Call
  <2> QED
    BY <1>5, <2>2, <2>3
<1>7. CASE If
  <2>1. PICK a : a = [kind |-> "if"]
    OBVIOUS
  <2>2. a \in Activation /\ a.kind = "if" /\ ~MayRunLines(a)
    BY <2>1 DEF Activation, MayRunLines
  <2>3. RunBody(a, Body[Cur]) \/ (Finish("ok") /\ frame' = frame)
    BY <1>7, <2>1 DEF If
  <2>4. Op[Cur] = "if"
    BY <1>7 DEF If, Carried
  <2> QED
    BY <1>4, <1>5, <2>2, <2>3, <2>4
<1>8. CASE For
  <2>1. PICK a : a = [kind |-> "for", left |-> ForItems - 1, body |-> Body[Cur]]
    OBVIOUS
  <2>2. /\ a \in Activation /\ a.kind = "for"
        /\ MayRunLines(a) => RunsLines(Body[Cur])
    <3>1. ForItems - 1 \in Nat /\ Body[Cur] \in Cmds
      BY <1>3, BatchAssumption
    <3> QED
      BY <2>1, <3>1 DEF Activation, MayRunLines
  <2>3. RunBody(a, Body[Cur])
    BY <1>8, <2>1 DEF For
  <2>4. Op[Cur] = "for"
    BY <1>8 DEF For, Carried
  <2> QED
    BY <1>5, <2>2, <2>3, <2>4
<1> QED
  BY <1>6, <1>7, <1>8

\* ForNext: only while the file is not ended.
LEMMA ForOrderly ==
  ASSUME BatInv, EndedParts(stack, frame, rv, call_flag), ForNext
  PROVE  EndedParts(stack', frame', rv', call_flag')
<1>1. /\ stack # <<>> /\ Top.kind = "for" /\ bframe.read_offset # Ended
      /\ EnterCommand(bframe, Append(Below, [Top EXCEPT !.left = @ - 1]), <<Top.body>>)
      /\ Top.left # 0
  BY DEF ForNext, ForBack, ForOver
<1>2. /\ stack \in Seq(Activation) /\ Top \in Activation /\ Len(stack) >= 3
      /\ Len(stack) \in Nat \ {0} /\ Top = stack[Len(stack)]
  BY <1>1, Running
<1>3. PICK n \in Nat \ {0}, a \in {Top} : n = Len(stack) /\ a = Top
  BY <1>2
<1>4. a \in [kind : {"for"}, left : Nat, body : Cmds]
  BY <1>1, <1>2, <1>3 DEF Activation
<1>5. PICK x : x = a.left - 1
  OBVIOUS
<1>6. x \in Nat
  BY <1>1, <1>3, <1>4, <1>5
<1>7. PICK b : b = [a EXCEPT !.left = x]
  OBVIOUS
<1>8. b \in [kind : {"for"}, left : Nat, body : Cmds] /\ b.body = a.body
  BY <1>4, <1>6, <1>7
<1>9. b \in Activation /\ b.kind = "for" /\ b.kind \in LineKinds
  BY <1>8 DEF Activation, LineKinds
<1>10. /\ MayRunLines(b) <=> RunsLines(a.body)
       /\ MayRunLines(a) <=> RunsLines(a.body)
  BY <1>4, <1>8 DEF MayRunLines
<1>11. PICK s : s = Append(Front(stack), b)
  OBVIOUS
<1>12. /\ s \in Seq(Activation) /\ Len(s) = n /\ s[n] = b
       /\ \A i \in 1..(n - 1) : s[i] = stack[i]
  <2>1. stack # <<>> /\ stack \in Seq(Activation) /\ b \in Activation
    BY <1>1, <1>2, <1>9
  <2> QED
    BY <1>3, <1>11, <2>1, Retopped
<1>13. Orderly(s)
  <2>1. Last(stack) = a /\ Orderly(stack)
    BY <1>3 DEF Top, EndedParts
  <2>2. a.kind \in LineKinds /\ b.kind # "command"
    BY <1>4, <1>9 DEF LineKinds
  <2> QED
    BY <1>1, <1>2, <1>9, <1>10, <1>11, <2>1, <2>2, OrderlyRetop
<1>14. PICK c, e : c = a.body /\ e = [kind |-> "command", rest |-> <<c>>]
  OBVIOUS
<1>15. c \in Cmds
  BY <1>4, <1>14
<1>16. /\ e \in Activation /\ e.kind = "command" /\ e.kind \in LineKinds
       /\ RestOrderly(e.rest)
       /\ MayRunLines(e) <=> RunsLines(c)
  BY <1>14, <1>15, OneOrderly
<1>17. ASSUME NEW k \in 1..n, s[k].kind = "command", Movers(s[k].rest)
       PROVE  ~MayRunLines(e)
  <2>1. k # n
    BY <1>9, <1>12, <1>17
  <2>2. k \in 1..(n - 1) /\ n \in (k + 1)..n
    BY <2>1
  <2>3. stack[k] = s[k]
    BY <1>12, <2>2
  <2>4. ~MayRunLines(stack[n])
    BY <1>3, <1>17, <2>2, <2>3 DEF EndedParts, Orderly
  <2> QED
    BY <1>2, <1>3, <1>10, <1>14, <1>16, <2>4
<1>18. Orderly(Append(s, e))
  BY <1>12, <1>13, <1>16, <1>17, OrderlyMore
<1>19. frame # <<>> /\ bframe \in Frame
  <2>1. Len(stack) >= 2
    BY <1>2
  <2> QED
    BY <2>1, Framed
<1>20. PICK g \in Frame : g = CountLine(bframe) /\ g.read_offset = bframe.read_offset
  BY <1>19, LineCounted
<1>21. frame' = WithFrame(g) /\ stack' = Append(s, e)
  <2>1. /\ frame' = WithFrame(CountLine(bframe))
        /\ stack' = Append(Append(Below, [Top EXCEPT !.left = @ - 1]),
                           [kind |-> "command", rest |-> <<Top.body>>])
    BY <1>1 DEF EnterCommand
  <2>2. [Top EXCEPT !.left = @ - 1] = b
    BY <1>3, <1>5, <1>7
  <2> QED
    BY <1>3, <1>11, <1>14, <1>20, <2>1, <2>2, Zenon DEF Below
<1>22. ~Ends(frame')
  BY <1>1, <1>19, <1>20, <1>21, EndsWith
<1> QED
  BY <1>18, <1>21, <1>22 DEF EndedParts

\* A function that reads lines is called by GOSUB and by batch.
LEMMA ReaderCalled ==
  ASSUME BatInv, AtCommand, EndedParts(stack, frame, rv, call_flag),
         Op[Cur] \in {"gosub", "batch"},
         NEW a \in Activation, a.kind \notin LineKinds,
         NEW e \in Activation, e.kind \notin LineKinds,
         stack' = Append(Append(Rest, a), e)
  PROVE  EndedParts(stack', frame', rv', call_flag')
<1>1. Cur \in Cmds /\ Rest \in Seq(Activation)
  BY Carrying
<1>2. RunsLines(Cur)
  BY <1>1, CommandSelf
<1>3. PICK s, t : s = Rest /\ t = Append(s, a)
  OBVIOUS
<1>4. /\ s \in Seq(Activation) /\ Orderly(s)
      /\ \A k \in 1..Len(s) : s[k].kind = "command" => ~Movers(s[k].rest)
  BY <1>1, <1>2, <1>3, RestOrder DEF EndedParts
<1>5. /\ Orderly(t) /\ t \in Seq(Activation)
      /\ \A k \in 1..Len(t) : t[k].kind = "command" => ~Movers(t[k].rest)
  BY <1>3, <1>4, OrderlyPush
<1>6. Orderly(Append(t, e)) /\ Quiet(Append(t, e))
  BY <1>5, OrderlyPush
<1>7. Still(Append(t, e), call_flag')
  BY <1>6, QuietStill
<1> QED
  BY <1>3, <1>6, <1>7 DEF EndedParts

\* Gosub, Nested.
LEMMA CallsOrderly ==
  ASSUME BatInv, EndedParts(stack, frame, rv, call_flag), Gosub \/ Nested
  PROVE  EndedParts(stack', frame', rv', call_flag')
<1>1. PICK e : e = [kind |-> "batchcli"]
  OBVIOUS
<1>2. e \in Activation /\ e.kind \notin LineKinds
  BY <1>1 DEF Activation, LineKinds
<1>3. CASE Nested
  <2>1. PICK a : a = [kind |-> "batch", save |-> flags]
    OBVIOUS
  <2>2. a \in Activation /\ a.kind \notin LineKinds
    <3>1. flags \in [iff : Int, endiff : Int, else : Int]
      BY DEF BatInv, Sane, WaitEndIff
    <3> QED
      BY <2>1, <3>1 DEF Activation, LineKinds
  <2>3. AtCommand /\ Op[Cur] = "batch" /\ stack' = Append(Append(Rest, a), e)
    BY <1>1, <1>3, <2>1 DEF Nested, Carried
  <2> QED
    BY <1>2, <2>2, <2>3, ReaderCalled
<1>4. CASE Gosub
  <2>1. AtCommand /\ Len(stack) >= 3 /\ Op[Cur] = "gosub"
    BY <1>4, CarriedOut DEF Gosub
  <2>2. frame # <<>> /\ bframe \in Frame
    <3>1. Len(stack) \in Nat
      BY Lengths
    <3> QED
      BY <2>1, <3>1, Framed
  <2>3. CASE Labels(bframe.name, Target[Cur]) # {}
    <3>1. PICK a : a = [kind |-> "gosub", offset |-> bframe.read_offset]
      OBVIOUS
    <3>2. a \in Activation /\ a.kind \notin LineKinds
      <4>1. bframe.read_offset \in Int
        BY <2>2 DEF Frame
      <4> QED
        BY <3>1, <4>1 DEF Activation, LineKinds
    <3>3. stack' = Append(Append(Rest, a), e)
      BY <1>1, <1>4, <2>3, <3>1 DEF Gosub
    <3> QED
      BY <1>2, <2>1, <3>2, <3>3, ReaderCalled
  <2>4. CASE ~(Labels(bframe.name, Target[Cur]) # {})
    <3>1. Finish("ok") /\ frame' = WithFrame(GotoLabel(bframe, Target[Cur]))
      BY <1>4, <2>4 DEF Gosub
    <3>2. text \in [Files -> Seq(Unit)]
      BY DEF BatInv
    <3>3. PICK g \in Frame : /\ g = GotoLabel(bframe, Target[Cur])
                             /\ g.read_offset \in 0..Len(text[bframe.name])
      BY <2>2, <3>2, LabelFound
    <3>4. g.read_offset # Ended
      BY <3>3 DEF Ended
    <3>5. ~Ends(frame')
      BY <2>2, <3>1, <3>3, <3>4, EndsWith
    <3> QED
      BY <2>1, <3>1, <3>5, FinishOrderly
  <2> QED
    BY <2>3, <2>4
<1> QED
  BY <1>3, <1>4

\* GosubDone, CallDone, NestedDone, IfDone, ForDone.
LEMMA DoneOrderly ==
  ASSUME BatInv, EndedParts(stack, frame, rv, call_flag),
         GosubDone \/ CallDone \/ NestedDone \/ IfDone \/ ForDone
  PROVE  EndedParts(stack', frame', rv', call_flag')
<1>1. stack # <<>> /\ stack' = Below /\ rv' = rv
  BY DEF GosubDone, CallDone, NestedDone, IfDone, ForDone, ForBack, Return
<1>2. \/ Top.kind \in {"gosub", "batch"}
      \/ frame' = frame
  BY DEF GosubDone, CallDone, NestedDone, IfDone, ForDone
<1> QED
  BY <1>1, <1>2, ReturnOrderly DEF LineKinds

\* So does a line that sets the place after it has run others.
LEMMA OrderStays ==
  ASSUME BatInv, [Next]_vars, NoGotoAfterCall'
  PROVE  NoGotoAfterCall
<1> SUFFICES ASSUME NEW f \in Files, NEW k \in DOMAIN text[f],
                    NEW i \in DOMAIN text[f][k].cmds, NEW j \in DOMAIN text[f][k].cmds,
                    i < j, RunsLines(text[f][k].cmds[i])
             PROVE  ~Moves(text[f][k].cmds[j])
  BY DEF NoGotoAfterCall
<1>1. PICK l \in DOMAIN text'[f] : text'[f][l] = text[f][k]
  BY UnitsStay
<1>2. \A p, q \in DOMAIN text'[f][l].cmds :
         p < q /\ RunsLines(text'[f][l].cmds[p]) => ~Moves(text'[f][l].cmds[q])
  BY DEF NoGotoAfterCall
<1> QED
  BY <1>1, <1>2

\* Every step keeps it.
LEMMA EndedNext ==
  ASSUME BatInv, EndedInv, [Next]_vars
  PROVE  EndedInv'
<1> SUFFICES ASSUME NoGotoAfterCall'
             PROVE  EndedParts(stack', frame', rv', call_flag')
  BY DEF EndedInv
<1>1. NoGotoAfterCall /\ EndedParts(stack, frame, rv, call_flag)
  BY OrderStays DEF EndedInv
<1>2. CASE UNCHANGED vars
  BY <1>1, <1>2 DEF vars
<1>3. CASE Batchcli \/ CtrlC
  BY <1>1, <1>3, ReadOrderly, BatchcliOrderly DEF Batchcli
<1>4. CASE Command
  BY <1>1, <1>4, CommandOrderly
<1>5. CASE Program \/ KillBatch \/ InsertBatch \/ Iff \/ ElseOrUnknown \/ TooDeep
             \/ Goto \/ ReturnCmd \/ Quit \/ Chain
  BY <1>1, <1>5, StayOrderly
<1>6. CASE Call \/ If \/ For
  BY <1>1, <1>6, BodiesOrderly
<1>7. CASE Gosub \/ Nested
  BY <1>1, <1>7, CallsOrderly
<1>8. CASE GosubDone \/ CallDone \/ NestedDone \/ IfDone \/ ForDone
  BY <1>1, <1>8, DoneOrderly
<1>9. CASE ForNext
  BY <1>1, <1>9, ForOrderly
<1> QED
  BY <1>2, <1>3, <1>4, <1>5, <1>6, <1>7, <1>8, <1>9
  DEF Next, Step, External, Internal, Returns

\* BATPROC starts with one command and no file.
LEMMA EndedInit ==
  ASSUME Init
  PROVE  EndedInv
<1>1. PICK e : e = [kind |-> "command", rest |-> <<Start>>]
  OBVIOUS
<1>2. /\ e \in Activation /\ e.kind \in LineKinds /\ RestOrderly(e.rest)
      /\ stack = <<e>> /\ frame = <<>>
  BY <1>1, OneOrderly, BatchAssumption DEF Init
<1>3. Len(stack) = 1 /\ stack[1] = e
  BY <1>2
<1>4. \A k \in 1..1 : k = 1 /\ \A j \in k..1 : j = 1
  OBVIOUS
<1>5. \A j \in (1 + 1)..1 : FALSE
  OBVIOUS
<1>6. InLine(stack, 1)
  BY <1>2, <1>3, <1>4 DEF InLine
<1>7. Orderly(stack)
  BY <1>2, <1>3, <1>4, <1>5, <1>6 DEF Orderly
<1>8. ~Ends(frame)
  BY <1>2 DEF Ends
<1> QED
  BY <1>7, <1>8 DEF EndedInv, EndedParts

\* Where no line sets the place after it has run other lines, one in an ended
\* file does not come to do so.
LEMMA EndedAlways ==
  Spec => []EndedInv
<1>1. Init => EndedInv
  BY EndedInit
<1>2. BatInv /\ EndedInv /\ [Next]_vars => EndedInv'
  BY EndedNext
<1> QED
  BY <1>1, <1>2, BatAlways, PTL DEF Spec

\* What is ended among the files stays so.
StayEnded(frames, gs) ==
    \A i \in DOMAIN frames :
        frames[i].read_offset = Ended /\ i \in DOMAIN gs => gs[i].read_offset = Ended

\* The innermost file goes on only if it has not been ended.
LEMMA StayWith ==
  ASSUME BatInv, frame # <<>>, NEW fr \in Frame, frame' = WithFrame(fr),
         bframe.read_offset = Ended => fr.read_offset = Ended
  PROVE  StayEnded(frame, frame')
<1>1. frame \in Seq(Frame) /\ DOMAIN frame = 1..Len(frame)
  BY LenProperties DEF BatInv, FramesSane
<1>2. PICK n \in Nat \ {0} : n = Len(frame)
  BY TopFrame
<1>3. /\ bframe = frame[n] /\ frame'[n] = fr
      /\ \A i \in 1..(n - 1) : frame'[i] = frame[i]
  BY <1>2, TopFrame
<1>4. \A i \in 1..n : i = n \/ i \in 1..(n - 1)
  BY <1>2
<1> QED
  BY <1>1, <1>2, <1>3, <1>4 DEF StayEnded

\* All files are ended.
LEMMA StayAll ==
  ASSUME frame' = [i \in DOMAIN frame |-> [frame[i] EXCEPT !.read_offset = Ended]],
         BatInv
  PROVE  StayEnded(frame, frame')
<1>1. PICK gs : gs = [i \in DOMAIN frame |-> [frame[i] EXCEPT !.read_offset = Ended]]
  OBVIOUS
<1>2. frame \in Seq(Frame) /\ DOMAIN frame = 1..Len(frame)
  BY LenProperties DEF BatInv, FramesSane
<1>3. ASSUME NEW i \in DOMAIN frame
      PROVE  gs[i].read_offset = Ended
  <2>1. PICK g : g = frame[i]
    OBVIOUS
  <2>2. g \in Frame
    BY <1>2, <1>3, <2>1, ElementOfSeq
  <2>3. gs[i] = [g EXCEPT !.read_offset = Ended]
    BY <1>1, <1>3, <2>1
  <2> QED
    BY <2>2, <2>3 DEF Frame
<1> QED
  BY <1>1, <1>3 DEF StayEnded

\* The actions that read lines or enter a command.
LEMMA StayEntered ==
  ASSUME BatInv, ReadLine \/ Call \/ If \/ For \/ ForNext
  PROVE  StayEnded(frame, frame')
<1>1. CASE frame' = frame
  BY <1>1 DEF StayEnded
<1>2. stack # <<>> /\ Len(stack) >= 2
  <2>1. CASE ReadLine \/ ForNext
    BY <2>1, Running DEF ReadLine, InBatchcli, ForNext, ForBack
  <2>2. CASE Call \/ If \/ For
    <3>1. PICK op \in {"call", "if", "for"} : Carried(op)
      BY <2>2 DEF Call, If, For
    <3>2. Len(stack) >= 3 /\ stack # <<>> /\ Len(stack) \in Nat
      BY <3>1, CarriedOut, Lengths
    <3> QED
      BY <3>2
  <2> QED
    BY <2>1, <2>2
<1>3. frame # <<>> /\ bframe \in Frame
  BY <1>2, Framed
<1>4. CASE ReadLine
  <2>1. bframe.read_offset # Ended /\ frame' = WithFrame(CountLine(GetLine(bframe)))
    BY <1>4 DEF ReadLine, EnterCommand
  <2>2. GetLine(bframe) \in Frame
    <3>1. PICK b, o : b = bframe /\ o = b.read_offset
      OBVIOUS
    <3>2. /\ b \in Frame /\ b.name \in Files /\ o \in Nat
          /\ text \in [Files -> Seq(Unit)] /\ o < Len(text[b.name])
      <4>1. FrameSane(bframe, text)
        BY <1>2, Framed
      <4>2. o \in Int /\ o >= -1 /\ o # -1 /\ b.name \in Files
        BY <1>3, <2>1, <3>1, <4>1 DEF FrameSane, Frame, Ended
      <4>3. text[b.name] \in Seq(Unit)
        BY <4>2 DEF BatInv
      <4>4. Len(text[b.name]) \in Nat
        BY <4>3, LenProperties
      <4> QED
        BY <1>3, <1>4, <3>1, <4>2, <4>4 DEF ReadLine, AtEnd, BatInv
    <3>3. PICK w, x : w = NextLine(b.name, o) /\ x = b.line_number + 1
      OBVIOUS
    <3>4. w \in Int
      <4>1. w \in (o + 1)..Len(text[b.name])
        BY <3>2, <3>3, LineRead
      <4> QED
        BY <3>2, <4>1
    <3>5. x \in Int
      BY <3>2, <3>3 DEF Frame
    <3>6. o \in Nat
      BY <3>2
    <3>7. PICK g : g = [b EXCEPT !.write_offset = o, !.read_offset = w,
                                 !.line_number = x]
      OBVIOUS
    <3>8. g \in Frame
      BY <3>2, <3>4, <3>5, <3>6, <3>7 DEF Frame
    <3>9. g = GetLine(b)
      BY <3>1, <3>3, <3>7 DEF GetLine
    <3> QED
      BY <3>1, <3>8, <3>9
  <2>3. PICK h \in Frame : h = CountLine(GetLine(bframe))
    BY <2>2, LineCounted
  <2> QED
    BY <1>3, <2>1, <2>3, StayWith
<1>5. CASE frame' # frame /\ ~ReadLine
  <2>1. PICK g \in Frame : g = CountLine(bframe) /\ g.read_offset = bframe.read_offset
    BY <1>3, LineCounted
  <2>2. frame' = WithFrame(g)
    BY <1>5, <2>1 DEF Call, If, For, ForNext, RunBody, EnterCommand
  <2> QED
    BY <1>3, <2>1, <2>2, StayWith
<1> QED
  BY <1>1, <1>4, <1>5

\* The actions that set the place of reading.
LEMMA StayMoved ==
  ASSUME BatInv, EndedParts(stack, frame, rv, call_flag),
         InsertBatch \/ Goto \/ Gosub \/ Chain
  PROVE  StayEnded(frame, frame')
<1>1. AtCommand /\ frame # <<>> /\ Op[Cur] \in {"insert", "goto", "gosub", "batch"}
  <2>1. CASE Chain
    BY <2>1 DEF Chain, Carried
  <2>2. CASE InsertBatch \/ Goto \/ Gosub
    <3>1. PICK op \in {"insert", "goto", "gosub"} : Carried(op)
      BY <2>2 DEF InsertBatch, Goto, Gosub
    <3>2. AtCommand /\ Op[Cur] = op /\ frame # <<>>
      BY <3>1, CarriedOut
    <3> QED
      BY <3>2
  <2> QED
    BY <2>1, <2>2
<1>2. Moves(Cur)
  BY <1>1, CommandSelf, Carrying
<1>3. rv = "run"
  BY <1>1 DEF AtCommand
<1>4. ASSUME Ends(frame)
      PROVE  call_flag = TRUE /\ Op[Cur] = "batch"
  BY <1>1, <1>2, <1>3, <1>4, RestQuiet DEF EndedParts
<1>5. ~Ends(frame) \/ frame' = frame
  <2>1. CASE Chain
    BY <1>4, <2>1 DEF Chain
  <2>2. CASE InsertBatch \/ Goto \/ Gosub
    BY <1>4, <2>2 DEF InsertBatch, Goto, Gosub, Carried
  <2> QED
    BY <2>1, <2>2
<1>6. CASE frame' = frame
  BY <1>6 DEF StayEnded
<1>7. CASE ~Ends(frame) /\ frame' # frame
  <2>1. bframe.read_offset # Ended
    BY <1>1, <1>7 DEF Ends, bframe
  <2>2. PICK fr : frame' = WithFrame(fr)
    BY <1>7 DEF InsertBatch, Goto, Gosub, Chain
  <2>3. frame \in Seq(Frame) /\ DOMAIN frame = 1..Len(frame)
    BY LenProperties DEF BatInv, FramesSane
  <2>4. /\ Front(frame) \in Seq(Frame) /\ Len(Front(frame)) = Len(frame) - 1
        /\ Len(frame) \in Nat \ {0}
        /\ \A i \in 1..(Len(frame) - 1) : Front(frame)[i] = frame[i]
        /\ bframe = frame[Len(frame)]
    BY <1>1, <2>3, Popped DEF bframe
  <2>5. PICK n \in Nat \ {0}, t \in {Front(frame)} : n = Len(frame) /\ t = Front(frame)
    BY <2>4
  <2>6. \A i \in 1..n : i = n \/ i \in 1..(n - 1)
    BY <2>5
  <2>7. \A i \in 1..(n - 1) : frame'[i] = frame[i]
    <3>1. frame' = Append(t, fr) /\ Len(t) = n - 1
      BY <2>2, <2>4, <2>5 DEF WithFrame
    <3>2. \A i \in 1..(n - 1) : Append(t, fr)[i] = t[i]
      BY <2>4, <2>5, <3>1
    <3> QED
      BY <2>4, <2>5, <3>1, <3>2
  <2> QED
    BY <2>1, <2>3, <2>4, <2>5, <2>6, <2>7 DEF StayEnded
<1> QED
  BY <1>5, <1>6, <1>7

\* The other actions end files, begin one, or leave one.
LEMMA StayOther ==
  ASSUME BatInv, GosubDone \/ ReturnCmd \/ Quit \/ CtrlC \/ Nested \/ NestedDone
  PROVE  StayEnded(frame, frame')
<1>1. CASE frame' = frame
  BY <1>1 DEF StayEnded
<1>2. CASE frame' = [i \in DOMAIN frame |-> [frame[i] EXCEPT !.read_offset = Ended]]
  BY <1>2, StayAll
<1>3. frame \in Seq(Frame) /\ DOMAIN frame = 1..Len(frame)
  BY LenProperties DEF BatInv, FramesSane
<1>4. CASE Nested
  <2>1. PICK fr : fr = NewFrame(Target[Cur])
    OBVIOUS
  <2>2. frame' = Append(frame, fr)
    BY <1>4, <2>1 DEF Nested
  <2>3. \A i \in 1..Len(frame) : Append(frame, fr)[i] = frame[i]
    BY <1>3
  <2> QED
    BY <1>3, <2>2, <2>3 DEF StayEnded
<1>5. CASE NestedDone
  <2>1. frame' = Front(frame) /\ stack # <<>> /\ Top.kind = "batch"
    BY <1>5 DEF NestedDone
  <2>2. Len(stack) >= 2
    BY <2>1, Running
  <2>3. frame # <<>>
    BY <2>2, Framed
  <2>4. /\ DOMAIN Front(frame) = 1..(Len(frame) - 1)
        /\ \A i \in 1..(Len(frame) - 1) : Front(frame)[i] = frame[i]
    BY <1>3, <2>3, Popped
  <2> QED
    BY <2>1, <2>4 DEF StayEnded
<1>6. ASSUME frame # <<>>, bframe \in Frame, GosubDone \/ ReturnCmd \/ Quit,
             ~(frame' = frame),
             ~(frame' = [i \in DOMAIN frame |-> [frame[i] EXCEPT !.read_offset = Ended]])
      PROVE  StayEnded(frame, frame')
  <2>1. PICK b : b = bframe
    OBVIOUS
  <2>2. b \in Frame
    BY <1>6, <2>1
  <2>3. CASE GosubDone
    <3>1. PICK x : x = IF rv = "ctrlc" THEN Ended
                       ELSE IF b.read_offset # Ended THEN Top.offset ELSE b.read_offset
      OBVIOUS
    <3>2. PICK g : g = [b EXCEPT !.read_offset = x]
      OBVIOUS
    <3>3. frame' = WithFrame(g)
      BY <2>1, <2>3, <3>1, <3>2 DEF GosubDone
    <3>4. stack # <<>> /\ Top.kind = "gosub"
      BY <2>3 DEF GosubDone
    <3>5. Top.offset \in Int
      <4>1. Top \in Activation
        BY <3>4, Running
      <4> QED
        BY <3>4, <4>1 DEF Activation
    <3>6. x \in Int /\ (b.read_offset = Ended => x = Ended)
      BY <2>2, <3>1, <3>5 DEF Frame, Ended
    <3>7. g \in Frame /\ g.read_offset = x
      BY <2>2, <3>2, <3>6 DEF Frame
    <3> QED
      BY <1>6, <2>1, <3>3, <3>6, <3>7, StayWith
  <2>4. CASE ReturnCmd
    <3>1. PICK x, g : x = b.gsoffset - 1 /\ g = [b EXCEPT !.gsoffset = x]
      OBVIOUS
    <3>2. x \in Int
      BY <2>2, <3>1 DEF Frame
    <3>3. g \in Frame /\ g.read_offset = b.read_offset
      BY <2>2, <3>1, <3>2 DEF Frame
    <3>4. frame' = WithFrame(g)
      BY <1>6, <2>1, <2>4, <3>1 DEF ReturnCmd
    <3> QED
      BY <1>6, <2>1, <3>3, <3>4, StayWith
  <2>5. CASE Quit
    <3>1. PICK g : g = [b EXCEPT !.read_offset = Ended]
      OBVIOUS
    <3>2. g \in Frame /\ g.read_offset = Ended
      BY <2>2, <3>1 DEF Frame, Ended
    <3>3. frame' = WithFrame(g)
      BY <1>6, <2>1, <2>5, <3>1 DEF Quit
    <3> QED
      BY <1>6, <3>2, <3>3, StayWith
  <2> QED
    BY <1>6, <2>3, <2>4, <2>5
<1>7. ASSUME GosubDone \/ ReturnCmd \/ Quit
      PROVE  frame # <<>> /\ bframe \in Frame
  <2>1. Len(stack) >= 3 /\ Len(stack) \in Nat
    <3>1. CASE GosubDone
      BY <3>1, Running, Lengths DEF GosubDone
    <3>2. CASE ReturnCmd \/ Quit
      <4>1. PICK op \in {"return", "quit", "cancel"} : Carried(op)
        BY <3>2 DEF ReturnCmd, Quit
      <4> QED
        BY <4>1, CarriedOut, Lengths
    <3> QED
      BY <1>7, <3>1, <3>2
  <2> QED
    BY <2>1, Framed
<1>8. CASE CtrlC
  <2>1. \/ frame' = frame
        \/ frame' = [i \in DOMAIN frame |-> [frame[i] EXCEPT !.read_offset = Ended]]
    BY <1>8 DEF CtrlC
  <2> QED
    BY <1>1, <1>2, <2>1
<1> QED
  BY <1>1, <1>2, <1>4, <1>5, <1>6, <1>7, <1>8

\* Every step keeps the files ended that are.
LEMMA StayStep ==
  ASSUME BatInv, EndedParts(stack, frame, rv, call_flag), [Next]_vars
  PROVE  StayEnded(frame, frame')
<1>1. CASE frame' = frame
  BY <1>1 DEF StayEnded
<1>2. CASE ReadLine \/ Call \/ If \/ For \/ ForNext
  BY <1>2, StayEntered
<1>3. CASE InsertBatch \/ Goto \/ Gosub \/ Chain
  BY <1>3, StayMoved
<1>4. CASE GosubDone \/ ReturnCmd \/ Quit \/ CtrlC \/ Nested \/ NestedDone
  BY <1>4, StayOther
<1>5. CASE EndOfFile \/ LineDone \/ CommandDone \/ Label \/ Skip \/ Program \/ KillBatch
             \/ Iff \/ ElseOrUnknown \/ TooDeep \/ CallDone \/ IfDone \/ ForDone
  BY <1>1, <1>5 DEF EndOfFile, LineDone, CommandDone, Label, Skip, Program, KillBatch,
     Iff, ElseOrUnknown, TooDeep, CallDone, IfDone, ForDone
<1>6. CASE UNCHANGED vars
  BY <1>1, <1>6 DEF vars
<1> QED
  BY <1>2, <1>3, <1>4, <1>5, <1>6
  DEF Next, Step, Batchcli, Command, External, Internal, Returns

\* A batch file that QUIT, CANCEL or Ctrl-C has ended is not read again, if no line
\* sets the place of reading after it has run other lines.
THEOREM EndedStays ==
  Spec => EndedIsFinal
<1>1. BatInv /\ EndedInv /\ [Next]_vars =>
        [NoGotoAfterCall =>
           \A i \in DOMAIN frame :
              frame[i].read_offset = Ended /\ i \in DOMAIN frame'
                 => frame'[i].read_offset = Ended]_vars
  <2> SUFFICES ASSUME BatInv, EndedInv, [Next]_vars, NoGotoAfterCall
               PROVE  \A i \in DOMAIN frame :
                         frame[i].read_offset = Ended /\ i \in DOMAIN frame'
                            => frame'[i].read_offset = Ended
    OBVIOUS
  <2>1. StayEnded(frame, frame')
    BY StayStep DEF EndedInv
  <2> QED
    BY <2>1 DEF StayEnded
<1> QED
  BY <1>1, BatAlways, EndedAlways, PTL DEF Spec, EndedIsFinal
=============================================================================
