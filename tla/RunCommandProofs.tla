--------------------------- MODULE RunCommandProofs ---------------------------
(***************************************************************************)
(* Proofs about RunCommand for every size of the pipes, of the buffers, of *)
(* the input and of the outputs: no byte is lost, doubled or out of order  *)
(* on its way to or from the command, read() never writes past a buffer,   *)
(* and run_command only returns when it has everything.                    *)
(*                                                                         *)
(* ReturnsAll is not inductive.  That an output is closed only when it is  *)
(* drained needs that select's answer still stands when the descriptor is  *)
(* served (ReadyStands): only the parent takes bytes from the pipe, and    *)
(* who has closed an end does not get it back (CallOpen).                  *)
(***************************************************************************)
EXTENDS RunCommand, SequenceTheorems, TLAPS

Types ==
  /\ pc \in {"idle", "first", "loop", "serve", "wait", "dead"}
  /\ input \in Seq(Nat) /\ position \in 0..Len(input)
  /\ want \subseteq Pipes /\ ready \subseteq want
  /\ output \in [Outputs -> Seq(Nat)] /\ allocated \in [Outputs -> Nat \ {0}]
  /\ child \in {"run", "read", "out", "err", "exited"}
  /\ consumed \in Seq(Nat) /\ eof \in BOOLEAN
  /\ made \in [Outputs -> Nat]
  /\ pipe \in [Pipes -> Seq(Nat)]
  /\ writers \in [Pipes -> SUBSET {"child", "parent", "heir"}]

(* The end of the input: only the parent has it, and closes it last.       *)
InputEnd ==
  /\ writers["in"] \subseteq {"parent"}
  /\ writers["in"] = {} => position = Len(input)
  /\ eof => pipe["in"] = <<>> /\ writers["in"] = {}

(* A command that writes has the descriptor open.                          *)
CallOpen == child \in Outputs => "child" \in writers[child]

(* An output that select reported is still readable or at its end.         *)
ReadyStands == \A o \in Outputs : o \in ready => pipe[o] # <<>> \/ writers[o] = {}

(* An output that the parent has closed is empty and stays so.             *)
Drained == \A o \in Outputs : o \notin want => pipe[o] = <<>> /\ writers[o] = {}

(* The loop is left with everything closed, run_command after the command. *)
Over ==
  /\ pc \in {"wait", "idle"} => want = {}
  /\ pc = "idle" => child = "exited"

RunInv ==
  /\ Types
  /\ BufferFits /\ OutputInOrder /\ InputInOrder
  /\ InputEnd /\ CallOpen /\ ReadyStands /\ Drained /\ Over

-----------------------------------------------------------------------------
(* Moving the first bytes of one sequence behind another keeps their order.*)
LEMMA Moved ==
  ASSUME NEW s \in Seq(Nat), NEW t \in Seq(Nat), NEW n \in 0..Len(t)
  PROVE  /\ SubSeq(t, 1, n) \in Seq(Nat) /\ Len(SubSeq(t, 1, n)) = n
         /\ SubSeq(t, n + 1, Len(t)) \in Seq(Nat)
         /\ (s \o SubSeq(t, 1, n)) \o SubSeq(t, n + 1, Len(t)) = s \o t
<1>1. SubSeq(t, 1, n) \in Seq(Nat) /\ Len(SubSeq(t, 1, n)) = n
  BY LenProperties, ElementOfSeq, SubSeqProperties
<1>2. SubSeq(t, n + 1, Len(t)) \in Seq(Nat)
  BY LenProperties, ElementOfSeq, SubSeqProperties
<1>3. SubSeq(t, 1, n) \o SubSeq(t, n + 1, Len(t)) = t
  <2>1. Len(t) \in Nat /\ 1 \in 1..Len(t) + 1 /\ n \in 1 - 1..Len(t) /\ Len(t) \in n..Len(t)
    BY LenProperties
  <2>2. SubSeq(t, 1, n) \o SubSeq(t, n + 1, Len(t)) = SubSeq(t, 1, Len(t))
    BY <2>1, ConcatAdjacentSubSeq
  <2>3. SubSeq(t, 1, Len(t)) = t
    BY SubSeqFull
  <2>4. QED
    BY <2>2, <2>3
<1>4. ASSUME NEW a \in Seq(Nat), NEW b \in Seq(Nat)
      PROVE  (s \o a) \o b = s \o (a \o b)
  BY ConcatAssociative
<1>5. QED
  BY <1>1, <1>2, <1>3, <1>4, ZenonT(60)

(* The numbered bytes, one by one.                                         *)
LEMMA OneMoreByte ==
  ASSUME NEW n \in Nat
  PROVE  /\ Bytes(n) \in Seq(Nat) /\ Len(Bytes(n)) = n
         /\ Bytes(n) \o <<n + 1>> = Bytes(n + 1)
BY DEF Bytes

(* What is written to the command follows what was written before.         *)
LEMMA Fed ==
  ASSUME NEW s \in Seq(Nat), NEW p \in 0..Len(s), NEW k \in 1..(Len(s) - p)
  PROVE  /\ SubSeq(s, p + 1, p + k) \in Seq(Nat) /\ Len(SubSeq(s, p + 1, p + k)) = k
         /\ SubSeq(s, 1, p) \o SubSeq(s, p + 1, p + k) = SubSeq(s, 1, p + k)
<1>1. Len(s) \in Nat /\ \A i \in 1..Len(s) : s[i] \in Nat
  BY LenProperties, ElementOfSeq
<1>2. SubSeq(s, p + 1, p + k) \in Seq(Nat) /\ Len(SubSeq(s, p + 1, p + k)) = k
  BY <1>1, SubSeqProperties
<1>3. QED
  BY <1>1, <1>2, ConcatAdjacentSubSeq

-----------------------------------------------------------------------------
(* read_data: what it takes from the pipe it puts behind what it has, and  *)
(* it closes an output only when nothing is left and nobody can write.     *)
LEMMA ReadDataStep ==
  ASSUME RunInv, NEW o \in Outputs, ReadData(o)
  PROVE  RunInv'
<1> DEFINE room == Room(o)
           n == Smaller(Len(pipe[o]), room - Len(output[o]))
<1>1. /\ o \in Pipes /\ pipe[o] \in Seq(Nat) /\ output[o] \in Seq(Nat)
      /\ Len(pipe[o]) \in Nat /\ Len(output[o]) \in Nat /\ allocated[o] \in Nat \ {0}
      /\ Len(output[o]) <= allocated[o]
  BY LenProperties DEF RunInv, Types, BufferFits, Outputs, Pipes
<1>2. room \in Nat \ {0} /\ room - Len(output[o]) \in Nat \ {0}
  <2>1. CASE allocated[o] = Len(output[o])
    <3>1. room = 2 * allocated[o]
      BY <2>1 DEF Room
    <3>2. QED
      BY <1>1, <2>1, <3>1
  <2>2. CASE allocated[o] # Len(output[o])
    <3>1. room = allocated[o]
      BY <2>2 DEF Room
    <3>2. QED
      BY <1>1, <2>2, <3>1
  <2>3. QED
    BY <2>1, <2>2
<1>3. n \in 0..Len(pipe[o]) /\ n <= room - Len(output[o]) /\ (n = 0 => Len(pipe[o]) = 0)
  BY <1>1, <1>2 DEF Smaller
<1>4. /\ allocated' = [allocated EXCEPT ![o] = room]
      /\ output' = [output EXCEPT ![o] = @ \o SubSeq(pipe[o], 1, n)]
      /\ pipe' = [pipe EXCEPT ![o] = SubSeq(@, n + 1, Len(@))]
      /\ want' = IF n > 0 THEN want ELSE want \ {o}
  BY <1>1 DEF ReadData, Offered, Appended, Unclosed, RunInv, Types
<1>5. /\ UNCHANGED <<input, position, child, consumed, eof, made, readers, writers>>
      /\ pc = "serve" /\ o \in ready /\ ready' = ready \ {o} /\ pc' \in {"loop", "serve"}
  BY DEF ReadData, Served, childVars
<1>6. /\ SubSeq(pipe[o], 1, n) \in Seq(Nat) /\ Len(SubSeq(pipe[o], 1, n)) = n
      /\ SubSeq(pipe[o], n + 1, Len(pipe[o])) \in Seq(Nat)
      /\ (output[o] \o SubSeq(pipe[o], 1, n)) \o SubSeq(pipe[o], n + 1, Len(pipe[o])) = output[o] \o pipe[o]
  BY <1>1, <1>3, Moved
<1>7. output[o] \o SubSeq(pipe[o], 1, n) \in Seq(Nat) /\ Len(output[o] \o SubSeq(pipe[o], 1, n)) = Len(output[o]) + n
  BY <1>1, <1>6, ConcatProperties
<1> HIDE DEF room, n
<1>8. Types'
  BY <1>1, <1>2, <1>4, <1>5, <1>6, <1>7 DEF RunInv, Types
<1>9. BufferFits'
  BY <1>1, <1>2, <1>3, <1>4, <1>7 DEF RunInv, Types, BufferFits
<1>10. OutputInOrder'
  <2>1. SUFFICES ASSUME NEW q \in Outputs PROVE output'[q] \o pipe'[q] = Bytes(made[q])
    BY <1>5 DEF OutputInOrder
  <2>2. output[q] \o pipe[q] = Bytes(made[q])
    BY DEF RunInv, OutputInOrder
  <2>3. CASE q = o
    <3>1. output'[q] = output[o] \o SubSeq(pipe[o], 1, n) /\ pipe'[q] = SubSeq(pipe[o], n + 1, Len(pipe[o]))
      BY <1>1, <1>4, <2>3 DEF RunInv, Types
    <3>2. QED
      BY <1>6, <2>2, <2>3, <3>1
  <2>4. CASE q # o
    <3>1. output'[q] = output[q] /\ pipe'[q] = pipe[q]
      BY <1>1, <1>4, <2>4 DEF RunInv, Types, Outputs, Pipes
    <3>2. QED
      BY <2>2, <3>1
  <2>5. QED
    BY <2>3, <2>4
<1>11. pipe'["in"] = pipe["in"] /\ o # "in"
  BY <1>4 DEF RunInv, Types, Outputs, Pipes
<1>12. InputInOrder' /\ InputEnd'
  BY <1>5, <1>11 DEF RunInv, InputInOrder, InputEnd
<1>13. CallOpen' /\ Over'
  BY <1>5 DEF RunInv, CallOpen, Over
<1>14. \A q \in Outputs \ {o} : pipe'[q] = pipe[q]
  BY <1>4 DEF RunInv, Types, Outputs, Pipes
<1>15. ReadyStands'
  BY <1>5, <1>14 DEF RunInv, ReadyStands
<1>16. n = 0 => pipe[o] = <<>> /\ pipe'[o] = <<>> /\ writers[o] = {}
  <2>1. SUFFICES ASSUME n = 0 PROVE pipe[o] = <<>> /\ pipe'[o] = <<>> /\ writers[o] = {}
    OBVIOUS
  <2>2. pipe[o] = <<>>
    BY <1>1, <1>3, <2>1, EmptySeq
  <2>3. pipe'[o] = SubSeq(<<>>, 1, 0)
    BY <1>1, <1>4, <2>1, <2>2 DEF RunInv, Types
  <2>4. QED
    BY <1>5, <2>2, <2>3, SubSeqEmpty DEF RunInv, ReadyStands
<1>17. Drained'
  <2>1. SUFFICES ASSUME NEW q \in Outputs, q \notin want'
                 PROVE  pipe'[q] = <<>> /\ writers'[q] = {}
    BY DEF Drained
  <2>2. CASE q = o
    BY <1>3, <1>4, <1>5, <1>16, <2>1, <2>2 DEF RunInv, Types
  <2>3. CASE q # o
    BY <1>4, <1>5, <1>14, <2>1, <2>3 DEF RunInv, Drained
  <2>4. QED
    BY <2>2, <2>3
<1>18. QED
  BY <1>8, <1>9, <1>10, <1>12, <1>13, <1>15, <1>17 DEF RunInv

(* feed_data: a partial write goes on where the last one stopped.          *)
LEMMA FeedStep ==
  ASSUME RunInv, Feed
  PROVE  RunInv'
<1>1. /\ UNCHANGED <<input, output, allocated, child, consumed, eof, made, readers>>
      /\ pc \in {"first", "serve"}
  BY DEF Feed, childVars
<1>2. CASE position = Len(input) /\ writers' = [writers EXCEPT !["in"] = @ \ {"parent"}]
           /\ want' = want \ {"in"} /\ Served("in") /\ UNCHANGED <<position, pipe>>
  <2>1. writers'["in"] = writers["in"] \ {"parent"} /\ \A o \in Outputs : writers'[o] = writers[o]
    BY <1>2 DEF RunInv, Types, Outputs, Pipes
  <2>2. Types'
    BY <1>1, <1>2 DEF RunInv, Types, Served, Pipes
  <2>3. BufferFits' /\ OutputInOrder' /\ InputInOrder' /\ InputEnd' /\ CallOpen'
    BY <1>1, <1>2, <2>1 DEF RunInv, BufferFits, OutputInOrder, InputInOrder, InputEnd, CallOpen
  <2>4. ReadyStands' /\ Drained' /\ Over'
    BY <1>1, <1>2, <2>1 DEF RunInv, ReadyStands, Drained, Over, Served, Outputs
  <2>5. QED
    BY <2>2, <2>3, <2>4 DEF RunInv
<1>3. CASE \E k \in 1..Smaller(Len(input) - position, PipeSize - Len(pipe["in"])) :
             /\ position < Len(input)
             /\ Write(SubSeq(input, position + 1, position + k))
             /\ Served("in") /\ UNCHANGED <<want, writers>>
  <2>1. PICK k \in 1..Smaller(Len(input) - position, PipeSize - Len(pipe["in"])) :
             /\ position < Len(input)
             /\ Write(SubSeq(input, position + 1, position + k))
             /\ Served("in") /\ UNCHANGED <<want, writers>>
    BY <1>3
  <2>2. /\ input \in Seq(Nat) /\ Len(input) \in Nat /\ position \in 0..Len(input) /\ PipeSize \in Nat
        /\ pipe["in"] \in Seq(Nat) /\ Len(pipe["in"]) \in Nat /\ consumed \in Seq(Nat)
    BY LenProperties, SizesAssumption DEF RunInv, Types, Pipes
  <2>3. k \in 1..(Len(input) - position)
    BY <2>1, <2>2 DEF Smaller
  <2> DEFINE bytes == SubSeq(input, position + 1, position + k)
  <2>4. /\ bytes \in Seq(Nat) /\ Len(bytes) = k
        /\ SubSeq(input, 1, position) \o bytes = SubSeq(input, 1, position + k)
    BY <2>2, <2>3, Fed
  <2> HIDE DEF bytes
  <2>5. pipe' = [pipe EXCEPT !["in"] = @ \o bytes] /\ position' = position + k
    BY <2>1, <2>4 DEF Write, Put, bytes
  <2>6. /\ pipe'["in"] = pipe["in"] \o bytes /\ pipe["in"] \o bytes \in Seq(Nat)
        /\ \A o \in Outputs : pipe'[o] = pipe[o]
    BY <2>2, <2>4, <2>5, ConcatProperties DEF RunInv, Types, Outputs, Pipes
  <2>7. Types'
    <3>1. position' \in 0..Len(input')
      BY <1>1, <2>2, <2>3, <2>5
    <3> DEFINE longer == pipe["in"] \o bytes
    <3>2. longer \in Seq(Nat) /\ pipe' = [pipe EXCEPT !["in"] = longer]
      BY <2>5, <2>6
    <3> HIDE DEF longer
    <3>3. pipe' \in [Pipes -> Seq(Nat)]
      BY <3>2 DEF RunInv, Types
    <3>4. QED
      BY <1>1, <2>1, <3>1, <3>3 DEF RunInv, Types, Served
  <2>8. BufferFits' /\ OutputInOrder' /\ CallOpen' /\ ReadyStands' /\ Drained' /\ Over'
    BY <1>1, <2>1, <2>6 DEF RunInv, BufferFits, OutputInOrder, CallOpen, ReadyStands, Drained, Over, Served
  <2>9. (consumed \o pipe["in"]) \o bytes = consumed \o (pipe["in"] \o bytes)
    <3>1. ASSUME NEW a \in Seq(Nat), NEW b \in Seq(Nat), NEW c \in Seq(Nat)
          PROVE  (a \o b) \o c = a \o (b \o c)
      BY ConcatAssociative, SMTT(30)
    <3>2. QED
      BY <2>2, <2>4, <3>1
  <2>10. consumed \o pipe["in"] = SubSeq(input, 1, position)
    BY DEF RunInv, InputInOrder
  <2>11. consumed' \o pipe'["in"] = SubSeq(input', 1, position')
    BY <1>1, <2>4, <2>5, <2>6, <2>9, <2>10
  <2>12. ~eof /\ writers["in"] # {}
    BY <2>1, <2>2 DEF RunInv, InputEnd
  <2>13. InputInOrder' /\ InputEnd'
    BY <1>1, <2>1, <2>11, <2>12 DEF RunInv, InputInOrder, InputEnd
  <2>14. QED
    BY <2>7, <2>8, <2>13 DEF RunInv
<1>4. CASE pc' = "dead" /\ UNCHANGED <<position, want, ready, pipe, writers>>
  BY <1>1, <1>4
     DEF RunInv, Types, BufferFits, OutputInOrder, InputInOrder, InputEnd, CallOpen, ReadyStands, Drained, Over
<1>5. QED
  BY <1>2, <1>3, <1>4 DEF Feed

(* The command reads: what it consumed and what is left stay in order.     *)
LEMMA ChildReadsStep ==
  ASSUME RunInv, ChildReads
  PROVE  RunInv'
<1>1. /\ UNCHANGED <<pc, input, position, want, ready, output, allocated, made, readers, writers>>
      /\ child = "read" /\ child' = "run"
  BY DEF ChildReads, parentVars
<1>2. CASE \E k \in 1..Len(pipe["in"]) :
             /\ consumed' = consumed \o SubSeq(pipe["in"], 1, k)
             /\ pipe' = [pipe EXCEPT !["in"] = SubSeq(@, k + 1, Len(@))]
             /\ UNCHANGED eof
  <2>1. PICK k \in 1..Len(pipe["in"]) :
             /\ consumed' = consumed \o SubSeq(pipe["in"], 1, k)
             /\ pipe' = [pipe EXCEPT !["in"] = SubSeq(@, k + 1, Len(@))]
             /\ UNCHANGED eof
    BY <1>2
  <2>2. consumed \in Seq(Nat) /\ pipe["in"] \in Seq(Nat) /\ Len(pipe["in"]) \in Nat /\ k \in 0..Len(pipe["in"])
    BY <2>1, LenProperties DEF RunInv, Types, Pipes
  <2>3. /\ SubSeq(pipe["in"], 1, k) \in Seq(Nat) /\ SubSeq(pipe["in"], k + 1, Len(pipe["in"])) \in Seq(Nat)
        /\ (consumed \o SubSeq(pipe["in"], 1, k)) \o SubSeq(pipe["in"], k + 1, Len(pipe["in"]))
             = consumed \o pipe["in"]
    BY <2>2, Moved
  <2>4. /\ pipe'["in"] = SubSeq(pipe["in"], k + 1, Len(pipe["in"]))
        /\ \A o \in Outputs : pipe'[o] = pipe[o]
    BY <2>1 DEF RunInv, Types, Outputs, Pipes
  <2>5. consumed' \in Seq(Nat)
    BY <2>1, <2>2, <2>3, ConcatProperties
  <2>6. Types'
    BY <1>1, <2>1, <2>3, <2>4, <2>5 DEF RunInv, Types
  <2>7. ~eof
    BY <2>1, <2>2 DEF RunInv, InputEnd
  <2>8. consumed' \o pipe'["in"] = consumed \o pipe["in"]
    BY <2>1, <2>3, <2>4
  <2>9. InputInOrder' /\ InputEnd'
    BY <1>1, <2>1, <2>7, <2>8 DEF RunInv, InputInOrder, InputEnd
  <2>10. BufferFits' /\ OutputInOrder' /\ CallOpen' /\ ReadyStands' /\ Drained' /\ Over'
    BY <1>1, <2>4 DEF RunInv, BufferFits, OutputInOrder, CallOpen, ReadyStands, Drained, Over, Outputs
  <2>11. QED
    BY <2>6, <2>9, <2>10 DEF RunInv
<1>3. CASE pipe["in"] = <<>> /\ writers["in"] = {} /\ eof' = TRUE /\ UNCHANGED <<consumed, pipe>>
  <2>1. consumed \o <<>> = SubSeq(input, 1, Len(input))
    BY <1>3 DEF RunInv, InputInOrder, InputEnd
  <2>2. consumed = input
    BY <2>1, ConcatEmptySeq, SubSeqFull DEF RunInv, Types
  <2>3. Types' /\ InputInOrder' /\ InputEnd'
    BY <1>1, <1>3, <2>2 DEF RunInv, Types, InputInOrder, InputEnd
  <2>4. BufferFits' /\ OutputInOrder' /\ CallOpen' /\ ReadyStands' /\ Drained' /\ Over'
    BY <1>1, <1>3 DEF RunInv, BufferFits, OutputInOrder, CallOpen, ReadyStands, Drained, Over, Outputs
  <2>5. QED
    BY <2>3, <2>4 DEF RunInv
<1>4. QED
  BY <1>2, <1>3 DEF ChildReads

(* The command writes one byte, to an output that cannot be closed yet.    *)
LEMMA ChildWritesStep ==
  ASSUME RunInv, NEW o \in Outputs, ChildWrites(o)
  PROVE  RunInv'
<1>1. /\ UNCHANGED <<pc, input, position, want, ready, output, allocated, consumed, eof, readers, writers>>
      /\ child = o /\ child' = "run" /\ o \in Pipes /\ o # "in"
      /\ pipe' = [pipe EXCEPT ![o] = @ \o <<made[o] + 1>>]
      /\ made' = [made EXCEPT ![o] = @ + 1]
  BY DEF ChildWrites, Put, parentVars, Outputs, Pipes
<1>2. /\ made[o] \in Nat /\ pipe[o] \in Seq(Nat) /\ output[o] \in Seq(Nat)
      /\ output[o] \o pipe[o] = Bytes(made[o])
  BY <1>1 DEF RunInv, Types, OutputInOrder
<1> DEFINE more == pipe[o] \o <<made[o] + 1>>
<1>3. /\ more \in Seq(Nat) /\ more # <<>>
      /\ output[o] \o more = Bytes(made[o] + 1)
  <2>1. <<made[o] + 1>> \in Seq(Nat) /\ Len(<<made[o] + 1>>) = 1
    BY <1>2
  <2>2. more \in Seq(Nat) /\ Len(more) = Len(pipe[o]) + 1 /\ Len(pipe[o]) \in Nat
    BY <1>2, <2>1, ConcatProperties, LenProperties
  <2>3. more # <<>>
    BY <2>2, EmptySeq
  <2>4. ASSUME NEW a \in Seq(Nat), NEW b \in Seq(Nat), NEW c \in Seq(Nat)
        PROVE  (a \o b) \o c = a \o (b \o c)
    BY ConcatAssociative
  <2>5. (output[o] \o pipe[o]) \o <<made[o] + 1>> = output[o] \o more
    BY <1>2, <2>1, <2>4
  <2>6. QED
    BY <1>2, <2>2, <2>3, <2>5, OneMoreByte
<1>4. pipe' = [pipe EXCEPT ![o] = more]
  BY <1>1
<1> HIDE DEF more
<1>5. /\ pipe'[o] = more /\ made'[o] = made[o] + 1
      /\ \A p \in Pipes \ {o} : pipe'[p] = pipe[p]
      /\ \A q \in Outputs \ {o} : made'[q] = made[q]
  BY <1>1, <1>4 DEF RunInv, Types
<1>6. Types'
  BY <1>1, <1>2, <1>3, <1>4, SMTT(30) DEF RunInv, Types
<1>7. OutputInOrder'
  <2>1. SUFFICES ASSUME NEW q \in Outputs PROVE output'[q] \o pipe'[q] = Bytes(made'[q])
    BY DEF OutputInOrder
  <2>2. CASE q = o
    BY <1>1, <1>3, <1>5, <2>2
  <2>3. CASE q # o
    <3>1. pipe'[q] = pipe[q] /\ made'[q] = made[q] /\ output'[q] = output[q]
      BY <1>1, <1>5, <2>3 DEF Outputs, Pipes
    <3>2. QED
      BY <3>1 DEF RunInv, OutputInOrder
  <2>4. QED
    BY <2>2, <2>3
<1>8. BufferFits' /\ InputInOrder' /\ InputEnd' /\ CallOpen' /\ Over'
  BY <1>1, <1>5 DEF RunInv, BufferFits, InputInOrder, InputEnd, CallOpen, Over, Outputs, Pipes
<1>9. o \in want
  BY <1>1 DEF RunInv, CallOpen, Drained
<1>10. ReadyStands' /\ Drained'
  BY <1>1, <1>3, <1>5, <1>9 DEF RunInv, ReadyStands, Drained, Outputs, Pipes
<1>11. QED
  BY <1>6, <1>7, <1>8, <1>10 DEF RunInv

(* Nothing is in order when there is nothing.                              *)
LEMMA Fresh ==
  /\ <<>> \in Seq(Nat) /\ Len(<<>>) = 0
  /\ <<>> \o <<>> = Bytes(0) /\ \A s \in Seq(Nat) : <<>> \o <<>> = SubSeq(s, 1, 0)
BY DEF Bytes

(* A new command starts with empty pipes and buffers.                      *)
LEMMA StartStep ==
  ASSUME RunInv, Start
  PROVE  RunInv'
<1>1. PICK n \in 0..MaxInput : input' = Bytes(n)
  BY DEF Start
<1>2. MaxInput \in Nat /\ BaseSize \in Nat \ {0}
  BY SizesAssumption
<1>3. input' \in Seq(Nat) /\ Len(input') \in Nat
  <2>1. n \in Nat
    BY <1>2
  <2>2. QED
    BY <1>1, <2>1, OneMoreByte
<1>4. Types'
  <2>1. position' \in 0..Len(input')
    BY <1>3 DEF Start
  <2>2. output' \in [Outputs -> Seq(Nat)] /\ allocated' \in [Outputs -> Nat \ {0}] /\ made' \in [Outputs -> Nat]
    BY <1>2, Fresh DEF Start
  <2>3. pipe' \in [Pipes -> Seq(Nat)] /\ consumed' \in Seq(Nat)
    BY Fresh DEF Start
  <2>4. writers' \in [Pipes -> SUBSET {"child", "parent", "heir"}]
    BY DEF Start
  <2>5. QED
    BY <1>3, <2>1, <2>2, <2>3, <2>4 DEF Start, Types
<1>5. BufferFits' /\ OutputInOrder' /\ InputInOrder'
  BY <1>2, <1>3, Fresh DEF Start, BufferFits, OutputInOrder, InputInOrder, Pipes, Outputs
<1>6. InputEnd' /\ CallOpen' /\ ReadyStands' /\ Drained' /\ Over'
  BY DEF Start, InputEnd, CallOpen, ReadyStands, Drained, Over, Pipes, Outputs
<1>7. QED
  BY <1>4, <1>5, <1>6 DEF RunInv

(* A new session: no command has run yet.                                  *)
LEMMA AtRest ==
  ASSUME Init
  PROVE  RunInv
<1>1. BaseSize \in Nat \ {0}
  BY SizesAssumption
<1>2. Types
  <2>1. position \in 0..Len(input) /\ input \in Seq(Nat)
    BY Fresh DEF Init
  <2>2. output \in [Outputs -> Seq(Nat)] /\ allocated \in [Outputs -> Nat \ {0}] /\ made \in [Outputs -> Nat]
    BY <1>1, Fresh DEF Init
  <2>3. pipe \in [Pipes -> Seq(Nat)] /\ consumed \in Seq(Nat)
    BY Fresh DEF Init
  <2>4. QED
    BY <2>1, <2>2, <2>3 DEF Init, Types
<1>3. BufferFits /\ OutputInOrder /\ InputInOrder
  BY <1>1, Fresh DEF Init, BufferFits, OutputInOrder, InputInOrder, Pipes, Outputs
<1>4. InputEnd /\ CallOpen /\ ReadyStands /\ Drained /\ Over
  BY Fresh DEF Init, InputEnd, CallOpen, ReadyStands, Drained, Over, Pipes, Outputs
<1>5. QED
  BY <1>2, <1>3, <1>4 DEF RunInv

-----------------------------------------------------------------------------
(* Every step of nuci, of the command and of what it leaves behind.        *)
LEMMA RunInvStep == RunInv /\ [Next]_vars => RunInv'
<1> SUFFICES ASSUME RunInv, [Next]_vars
             PROVE  RunInv'
  OBVIOUS
<1> DEFINE Data == <<input, position, output, allocated, consumed, eof, made, pipe>>
           Kept == BufferFits' /\ OutputInOrder' /\ InputInOrder'
<1>1. Data' = Data => Kept
  <2> SUFFICES ASSUME Data' = Data PROVE Kept
    OBVIOUS
  <2>1. UNCHANGED <<input, position, consumed, eof, pipe>> /\ UNCHANGED <<output, allocated, made>>
    OBVIOUS
  <2>2. BufferFits' /\ OutputInOrder' /\ InputInOrder'
    BY <2>1 DEF RunInv, BufferFits, OutputInOrder, InputInOrder
  <2>3. QED
    BY <2>2
<1> HIDE DEF Kept
<1>2. ASSUME Select PROVE RunInv'
  <2>1. /\ Data' = Data /\ UNCHANGED <<want, child, writers>>
        /\ pc' = "serve" /\ ready' = {p \in want : Ready(p)}
    BY <1>2 DEF Select, Asked, childVars, pipeVars
  <2>2. Types' /\ InputEnd' /\ CallOpen' /\ Drained' /\ Over'
    BY <2>1 DEF RunInv, Types, InputEnd, CallOpen, Drained, Over
  <2>3. ReadyStands'
    BY <2>1 DEF ReadyStands, Ready, Outputs
  <2>4. QED
    BY <1>1, <2>1, <2>2, <2>3 DEF RunInv, Kept
<1>3. ASSUME LoopEnds \/ Return PROVE RunInv'
  <2>1. Data' = Data /\ UNCHANGED <<want, ready, child, writers>>
        /\ ((pc' = "wait" /\ want = {}) \/ (pc' = "idle" /\ pc = "wait" /\ child = "exited"))
    BY <1>3 DEF LoopEnds, Return, childVars, pipeVars
  <2>2. Types' /\ InputEnd' /\ CallOpen' /\ ReadyStands' /\ Drained' /\ Over'
    BY <2>1 DEF RunInv, Types, InputEnd, CallOpen, ReadyStands, Drained, Over
  <2>3. QED
    BY <1>1, <2>1, <2>2 DEF RunInv, Kept
<1>4. ASSUME ChildCalls PROVE RunInv'
  <2>1. Data' = Data /\ UNCHANGED <<pc, want, ready, writers>> /\ child = "run"
        /\ (child' = "read" \/ \E o \in Outputs : child' = o /\ "child" \in writers[o])
    BY <1>4 DEF ChildCalls, parentVars, pipeVars
  <2>2. child' \in {"read", "out", "err"} /\ (child' \in Outputs => "child" \in writers[child'])
    BY <2>1 DEF Outputs
  <2>3. Types' /\ CallOpen'
    BY <2>1, <2>2 DEF RunInv, Types, CallOpen
  <2>4. InputEnd' /\ ReadyStands' /\ Drained' /\ Over'
    BY <2>1 DEF RunInv, InputEnd, ReadyStands, Drained, Over
  <2>5. QED
    BY <1>1, <2>1, <2>3, <2>4 DEF RunInv, Kept
<1>5. ASSUME ChildCloses \/ ChildForks \/ ChildExits \/ HeirEnds PROVE RunInv'
  <2>1. Data' = Data /\ UNCHANGED <<pc, want, ready>>
    BY <1>5 DEF ChildCloses, ChildForks, ChildExits, HeirEnds, parentVars, childVars
  <2>2. child' = child \/ (child = "run" /\ child' = "exited")
    BY <1>5 DEF ChildCloses, ChildForks, ChildExits, HeirEnds, childVars
  <2>3. /\ writers' \in [Pipes -> SUBSET {"child", "parent", "heir"}]
        /\ writers'["in"] = writers["in"]
        /\ \A o \in Outputs : writers[o] = {} => writers'[o] = {}
    <3>1. writers \in [Pipes -> SUBSET {"child", "parent", "heir"}] /\ writers["in"] \subseteq {"parent"}
      BY DEF RunInv, Types, InputEnd
    <3>2. CASE ChildCloses
      BY <3>1, <3>2 DEF ChildCloses, Pipes, Outputs
    <3>3. CASE ChildForks
      BY <3>1, <3>3 DEF ChildForks, Pipes, Outputs
    <3>4. CASE ChildExits \/ HeirEnds
      BY <3>1, <3>4 DEF ChildExits, HeirEnds, Pipes, Outputs
    <3>5. QED
      BY <1>5, <3>2, <3>3, <3>4
  <2>4. child' \in Outputs => "child" \in writers'[child']
    BY <1>5 DEF RunInv, Types, CallOpen, ChildCloses, ChildForks, ChildExits, HeirEnds, childVars, Pipes, Outputs
  <2>5. Types' /\ InputEnd' /\ CallOpen' /\ Over'
    BY <2>1, <2>2, <2>3, <2>4 DEF RunInv, Types, InputEnd, CallOpen, Over
  <2>6. ReadyStands' /\ Drained'
    BY <2>1, <2>3 DEF RunInv, ReadyStands, Drained
  <2>7. QED
    BY <1>1, <2>1, <2>5, <2>6 DEF RunInv, Kept
<1>6. ASSUME Reconnect PROVE RunInv'
  <2>1. Init'
    BY <1>6 DEF Reconnect, Init
  <2>2. Init' => RunInv'
    BY AtRest, PTL
  <2>3. QED
    BY <2>1, <2>2
<1>7. CASE UNCHANGED vars
  BY <1>7
     DEF vars, parentVars, childVars, pipeVars, RunInv, Types, BufferFits, OutputInOrder, InputInOrder,
         InputEnd, CallOpen, ReadyStands, Drained, Over
<1>8. QED
  BY <1>2, <1>3, <1>4, <1>5, <1>6, <1>7, StartStep, FeedStep, ReadDataStep, ChildReadsStep, ChildWritesStep
     DEF Next, Parent, ChildWork

(* The invariant holds whatever the command does, for all sizes.           *)
THEOREM RunInvariant == Spec => []RunInv
<1>1. QED
  BY AtRest, RunInvStep, PTL DEF Spec

(* feed_data and its partial writes hand over the input as it is.          *)
THEOREM InputArrives == Spec => []InputInOrder
<1>1. RunInv => InputInOrder
  BY DEF RunInv
<1>2. QED
  BY <1>1, RunInvariant, PTL

(* read_data, while the buffers grow: nothing is written past their end,   *)
(* and what was read before stays where it is.                             *)
THEOREM OutputArrives == Spec => [](OutputInOrder /\ BufferFits)
<1>1. RunInv => OutputInOrder /\ BufferFits
  BY DEF RunInv
<1>2. QED
  BY <1>1, RunInvariant, PTL

(* run_command returns with all outputs, and after the command: also when  *)
(* a process in the background still writes to them.                       *)
THEOREM ReturnsEverything == Spec => []ReturnsAll
<1>1. RunInv => ReturnsAll
  <2> SUFFICES ASSUME RunInv, pc = "idle", NEW o \in Outputs
               PROVE  child = "exited" /\ output[o] = Bytes(made[o])
    BY DEF ReturnsAll, Outputs
  <2>1. child = "exited" /\ pipe[o] = <<>>
    BY DEF RunInv, Over, Drained
  <2>2. output[o] \in Seq(Nat) /\ output[o] \o <<>> = Bytes(made[o])
    BY <2>1 DEF RunInv, Types, OutputInOrder
  <2>3. QED
    BY <2>1, <2>2, ConcatEmptySeq
<1>2. QED
  BY <1>1, RunInvariant, PTL
-----------------------------------------------------------------------------
(* The sizes: what is under way keeps below the limits of the pipes and of *)
(* the command.  A call of the command that is blocked is one it may make. *)
Limits ==
  /\ \A p \in Pipes : Len(pipe[p]) <= PipeSize
  /\ \A o \in Outputs : allocated[o] >= BaseSize /\ made[o] <= MaxOutput
  /\ \A o \in Outputs : child = o => made[o] < MaxOutput
  /\ readers \subseteq {"child", "heir"}

(* The sizes, one by one.                                                  *)
LEMMA Sizes == MaxInput \in Nat /\ MaxOutput \in Nat /\ PipeSize \in Nat /\ BaseSize \in Nat \ {0}
BY SizesAssumption

(* A partial write fills the pipe to its size and never beyond it.         *)
LEMMA FeedLimits ==
  ASSUME RunInv, Limits, Feed
  PROVE  Limits'
<1>1. UNCHANGED <<allocated, made, child, readers>>
  BY DEF Feed, childVars
<1>2. SUFFICES \A p \in Pipes : Len(pipe'[p]) <= PipeSize
  BY <1>1 DEF Limits
<1>3. CASE UNCHANGED pipe
  BY <1>3 DEF Limits
<1>4. CASE \E k \in 1..Smaller(Len(input) - position, PipeSize - Len(pipe["in"])) :
             Put("in", SubSeq(input, position + 1, position + k))
  <2>1. PICK k \in 1..Smaller(Len(input) - position, PipeSize - Len(pipe["in"])) :
             Put("in", SubSeq(input, position + 1, position + k))
    BY <1>4
  <2> DEFINE bytes == SubSeq(input, position + 1, position + k)
  <2>2. /\ input \in Seq(Nat) /\ Len(input) \in Nat /\ position \in 0..Len(input)
        /\ PipeSize \in Nat
        /\ pipe["in"] \in Seq(Nat) /\ Len(pipe["in"]) \in Nat /\ Len(pipe["in"]) <= PipeSize
    BY LenProperties, Sizes DEF RunInv, Types, Limits, Pipes
  <2>3. k \in 1..(Len(input) - position) /\ k <= PipeSize - Len(pipe["in"])
    BY <2>2 DEF Smaller
  <2>4. bytes \in Seq(Nat) /\ Len(bytes) = k
    BY <2>2, <2>3, Fed
  <2>5. pipe' = [pipe EXCEPT !["in"] = @ \o bytes]
    BY <2>1 DEF Put
  <2> HIDE DEF bytes
  <2>6. Len(pipe["in"] \o bytes) = Len(pipe["in"]) + k
    BY <2>2, <2>4, ConcatProperties
  <2>7. pipe'["in"] = pipe["in"] \o bytes /\ \A p \in Pipes \ {"in"} : pipe'[p] = pipe[p]
    BY <2>5 DEF RunInv, Types, Pipes
  <2>8. Len(pipe'["in"]) <= PipeSize
    BY <2>2, <2>3, <2>6, <2>7
  <2>9. QED
    BY <2>7, <2>8 DEF Limits
<1>5. UNCHANGED pipe \/ \E k \in 1..Smaller(Len(input) - position, PipeSize - Len(pipe["in"])) :
                          Put("in", SubSeq(input, position + 1, position + k))
  BY DEF Feed, Write
<1>6. QED
  BY <1>3, <1>4, <1>5

(* What is taken from a pipe leaves less in it; the buffers only grow.     *)
LEMMA TakeLimits ==
  ASSUME RunInv, Limits, ChildReads \/ \E o \in Outputs : ReadData(o)
  PROVE  Limits'
<1>1. ASSUME NEW p \in Pipes, NEW n \in 0..Len(pipe[p])
      PROVE  /\ Len(pipe[p]) \in Nat
             /\ Len(SubSeq(pipe[p], n + 1, Len(pipe[p]))) = Len(pipe[p]) - n
  <2>1. pipe[p] \in Seq(Nat) /\ Len(pipe[p]) \in Nat
    BY LenProperties DEF RunInv, Types
  <2>2. n + 1 \in 1..Len(pipe[p]) + 1
    BY <2>1
  <2>3. QED
    BY <2>1, <2>2, ElementOfSeq, SubSeqProperties
<1>2. CASE ChildReads
  <2>1. UNCHANGED <<allocated, made, readers>> /\ child' = "run"
    BY <1>2 DEF ChildReads, parentVars
  <2>2. \A p \in Pipes : Len(pipe'[p]) <= PipeSize
    <3>1. CASE UNCHANGED pipe
      BY <3>1 DEF Limits
    <3>2. CASE \E k \in 1..Len(pipe["in"]) : pipe' = [pipe EXCEPT !["in"] = SubSeq(@, k + 1, Len(@))]
      <4>1. PICK k \in 1..Len(pipe["in"]) : pipe' = [pipe EXCEPT !["in"] = SubSeq(@, k + 1, Len(@))]
        BY <3>2
      <4>2. "in" \in Pipes /\ k \in 0..Len(pipe["in"])
        BY DEF Pipes
      <4>3. Len(SubSeq(pipe["in"], k + 1, Len(pipe["in"]))) <= PipeSize
        BY <1>1, <4>2, Sizes DEF Limits
      <4>4. QED
        BY <4>1, <4>3 DEF RunInv, Types, Limits
    <3>3. QED
      BY <1>2, <3>1, <3>2 DEF ChildReads
  <2>3. QED
    BY <2>1, <2>2 DEF Limits, Outputs
<1>3. ASSUME NEW o \in Outputs, ReadData(o)
      PROVE  Limits'
  <2> DEFINE n == Smaller(Len(pipe[o]), Room(o) - Len(output[o]))
  <2>1. /\ o \in Pipes /\ Len(pipe[o]) \in Nat /\ Len(output[o]) \in Nat
        /\ allocated[o] \in Nat \ {0} /\ Len(output[o]) <= allocated[o]
    BY LenProperties DEF RunInv, Types, BufferFits, Outputs, Pipes
  <2>2. Room(o) \in Nat /\ Room(o) >= allocated[o]
    BY <2>1 DEF Room
  <2>3. n \in 0..Len(pipe[o])
    BY <2>1, <2>2 DEF Smaller
  <2>4. /\ UNCHANGED <<made, readers, child>>
        /\ allocated' = [allocated EXCEPT ![o] = Room(o)]
        /\ pipe' = [pipe EXCEPT ![o] = SubSeq(@, n + 1, Len(@))]
    BY <1>3, <2>1 DEF ReadData, Offered, childVars, RunInv, Types
  <2>5. Len(SubSeq(pipe[o], n + 1, Len(pipe[o]))) <= PipeSize
    <3> HIDE DEF n
    <3>1. QED
      BY <1>1, <2>1, <2>3, Sizes DEF Limits
  <2> HIDE DEF n
  <2>6. \A p \in Pipes : Len(pipe'[p]) <= PipeSize
    BY <2>4, <2>5 DEF RunInv, Types, Limits
  <2>7. \A q \in Outputs : allocated'[q] >= BaseSize
    <3>1. Room(o) >= BaseSize
      BY <2>1, <2>2, Sizes DEF Limits
    <3>2. QED
      BY <2>2, <2>4, <3>1 DEF RunInv, Types, Limits
  <2>8. \A q \in Outputs : made'[q] <= MaxOutput /\ (child' = q => made'[q] < MaxOutput)
    BY <2>4 DEF Limits
  <2>9. readers' \subseteq {"child", "heir"}
    BY <2>4 DEF Limits
  <2>10. QED
    BY <2>6, <2>7, <2>8, <2>9 DEF Limits
<1>4. QED
  BY <1>2, <1>3

(* Every step keeps the limits.                                            *)
LEMMA LimitsStep == RunInv /\ Limits /\ [Next]_vars => Limits'
<1> SUFFICES ASSUME RunInv, Limits, [Next]_vars
             PROVE  Limits'
  OBVIOUS
<1> USE Sizes
<1>1. CASE Start
  <2>1. Len(<<>>) = 0
    OBVIOUS
  <2>2. \A p \in Pipes : Len(pipe'[p]) <= PipeSize
    BY <1>1, <2>1 DEF Start
  <2>3. \A o \in Outputs : allocated'[o] >= BaseSize /\ made'[o] <= MaxOutput
    BY <1>1 DEF Start
  <2>4. child' = "run" /\ readers' = {"child"}
    BY <1>1 DEF Start
  <2>5. QED
    BY <2>2, <2>3, <2>4 DEF Limits, Outputs
<1>2. CASE Reconnect
  <2>1. Len(<<>>) = 0
    OBVIOUS
  <2>2. \A p \in Pipes : Len(pipe'[p]) <= PipeSize
    BY <1>2, <2>1 DEF Reconnect
  <2>3. \A o \in Outputs : allocated'[o] >= BaseSize /\ made'[o] <= MaxOutput
    BY <1>2 DEF Reconnect
  <2>4. child' = "exited" /\ readers' = {}
    BY <1>2 DEF Reconnect
  <2>5. QED
    BY <2>2, <2>3, <2>4 DEF Limits, Outputs
<1>3. CASE Select \/ LoopEnds \/ Return
  BY <1>3 DEF Select, LoopEnds, Return, childVars, pipeVars, Limits
<1>4. CASE ChildCalls
  <2>1. UNCHANGED <<allocated, made, pipe, readers>>
    BY <1>4 DEF ChildCalls, parentVars, pipeVars
  <2>2. child' = "read" \/ \E o \in Outputs : child' = o /\ made[o] < MaxOutput
    BY <1>4 DEF ChildCalls
  <2>3. QED
    BY <2>1, <2>2 DEF Limits, Outputs
<1>5. CASE ChildCloses \/ ChildForks \/ ChildExits \/ HeirEnds
  <2>1. UNCHANGED <<allocated, made, pipe>> /\ child' \in {child, "exited"}
    BY <1>5 DEF ChildCloses, ChildForks, ChildExits, HeirEnds, parentVars, childVars
  <2>2. readers' \subseteq {"child", "heir"}
    BY <1>5 DEF ChildCloses, ChildForks, ChildExits, HeirEnds, Limits
  <2>3. QED
    BY <2>1, <2>2 DEF Limits, Outputs
<1>6. ASSUME NEW o \in Outputs, ChildWrites(o)
      PROVE  Limits'
  <2>1. /\ o \in Pipes /\ pipe[o] \in Seq(Nat) /\ Len(pipe[o]) \in Nat /\ made[o] \in Nat
        /\ made[o] < MaxOutput /\ Len(pipe[o]) < PipeSize
    <3>1. o \in Pipes /\ pipe[o] \in Seq(Nat) /\ made[o] \in Nat
      BY DEF RunInv, Types, Outputs, Pipes
    <3>2. made[o] < MaxOutput /\ Len(pipe[o]) < PipeSize
      BY <1>6 DEF ChildWrites, Limits
    <3>3. QED
      BY <3>1, <3>2, LenProperties
  <2> DEFINE more == pipe[o] \o <<made[o] + 1>>
  <2>2. Len(more) = Len(pipe[o]) + 1
    BY <2>1
  <2>3. /\ UNCHANGED <<allocated, readers>> /\ child' = "run"
        /\ pipe' = [pipe EXCEPT ![o] = more] /\ made' = [made EXCEPT ![o] = made[o] + 1]
    BY <1>6 DEF ChildWrites, Put, parentVars
  <2> HIDE DEF more
  <2>4. \A p \in Pipes : Len(pipe'[p]) <= PipeSize
    BY <2>1, <2>2, <2>3 DEF RunInv, Types, Limits
  <2>5. \A q \in Outputs : made'[q] <= MaxOutput
    <3>1. made[o] + 1 <= MaxOutput
      BY <2>1, Sizes
    <3>2. QED
      BY <2>3, <3>1 DEF RunInv, Types, Limits
  <2>6. QED
    BY <2>3, <2>4, <2>5 DEF Limits, Outputs
<1>7. CASE UNCHANGED vars
  BY <1>7 DEF vars, parentVars, childVars, pipeVars, Limits
<1>8. QED
  BY <1>1, <1>2, <1>3, <1>4, <1>5, <1>6, <1>7, FeedLimits, TakeLimits DEF Next, Parent, ChildWork

(* At rest nothing is under way.                                           *)
LEMMA LimitsInit == Init => Limits
<1> SUFFICES ASSUME Init
             PROVE  Limits
  OBVIOUS
<1>1. Len(<<>>) = 0
  OBVIOUS
<1>2. \A p \in Pipes : Len(pipe[p]) <= PipeSize
  BY <1>1, Sizes DEF Init
<1>3. QED
  BY <1>2, Sizes DEF Init, Limits, Outputs

(* The variables keep their types and the pipes their sizes; what was read *)
(* of an output is never more than the command may write: the kernel never *)
(* takes more of a write() than fits, and read() gives nothing twice.      *)
THEOREM RunTypeCorrect == Spec => []TypeOK
<1>1. ASSUME RunInv, Limits
      PROVE  TypeOK
  <2>1. ASSUME NEW o \in Outputs
        PROVE  Len(output[o]) <= MaxOutput
    <3>1. /\ output[o] \in Seq(Nat) /\ pipe[o] \in Seq(Nat) /\ made[o] \in Nat
          /\ output[o] \o pipe[o] = Bytes(made[o])
      BY <1>1 DEF RunInv, Types, OutputInOrder, Outputs, Pipes
    <3>2. Len(Bytes(made[o])) = Len(output[o]) + Len(pipe[o])
      BY <3>1, ConcatProperties
    <3>3. Len(output[o]) \in Nat /\ Len(pipe[o]) \in Nat /\ Len(Bytes(made[o])) = made[o]
      BY <3>1, OneMoreByte, LenProperties
    <3>4. made[o] <= MaxOutput
      BY <1>1 DEF Limits
    <3>5. ASSUME NEW a \in Nat, NEW b \in Nat, NEW m \in Nat, m = a + b, m <= MaxOutput
          PROVE  a <= MaxOutput
      BY <3>5, Sizes
    <3>6. QED
      BY <3>1, <3>2, <3>3, <3>4, <3>5
  <2>2. made \in [Outputs -> 0..MaxOutput]
    <3>1. made \in [Outputs -> Nat] /\ \A o \in Outputs : made[o] <= MaxOutput
      BY <1>1 DEF RunInv, Types, Limits
    <3>2. \A o \in Outputs : made[o] \in 0..MaxOutput
      BY <3>1, Sizes
    <3>3. QED
      BY <3>1, <3>2
  <2>3. /\ pc \in {"idle", "first", "loop", "serve", "wait", "dead"}
        /\ position \in 0..Len(input) /\ want \subseteq Pipes /\ ready \subseteq want
        /\ child \in {"run", "read", "out", "err", "exited"} /\ eof \in BOOLEAN
        /\ writers \in [Pipes -> SUBSET {"child", "parent", "heir"}]
    BY <1>1 DEF RunInv, Types
  <2>4. /\ \A o \in Outputs : allocated[o] >= BaseSize
        /\ \A p \in Pipes : Len(pipe[p]) <= PipeSize
        /\ readers \subseteq {"child", "heir"}
    BY <1>1 DEF Limits
  <2>5. QED
    BY <2>1, <2>2, <2>3, <2>4 DEF TypeOK
<1>2. QED
  BY <1>1, RunInvariant, LimitsInit, LimitsStep, PTL DEF Spec

(* read() is never offered room beyond the end of a buffer, whatever the   *)
(* first size of the buffers and however often they double (read_data).    *)
THEOREM BuffersFit == Spec => []BufferFits
<1>1. RunInv => BufferFits
  BY DEF RunInv
<1>2. QED
  BY <1>1, RunInvariant, PTL
=============================================================================
