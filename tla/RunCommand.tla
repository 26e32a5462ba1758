------------------------------ MODULE RunCommand ------------------------------
(***************************************************************************)
(* run_command of src/src/interpreter.c: nuci starts a command, feeds its  *)
(* standard input and collects both its outputs through three pipes.       *)
(*                                                                         *)
(* The parent's ends of the pipes do not block; it waits in select and     *)
(* nowhere else, until the outputs are closed, and then for the child.     *)
(* The command is any program: it reads, writes and closes in any order,   *)
(* with blocking calls it can not take back, may leave a background        *)
(* process behind that has the outputs open, and may end before it has     *)
(* read everything; one that can not be executed ends at once.  Data are   *)
(* numbered bytes.  pipe, fork, fcntl and close are taken to succeed.      *)
(***************************************************************************)
EXTENDS Naturals, Sequences

CONSTANTS
  MaxInput,     \* longest input of a command
  MaxOutput,    \* most that a command writes to either output
  PipeSize,     \* what fits into a pipe
  BaseSize      \* base_size: the first size of an output buffer

ASSUME SizesAssumption == {MaxInput, MaxOutput, PipeSize, BaseSize} \subseteq Nat \ {0}

VARIABLES
  pc,          \* where run_command is
  input,       \* the bytes to feed
  position,    \* input_position
  want,        \* want_write, output_unclosed, err_unclosed
  ready,       \* descriptors that select reported and are still to be served
  output,      \* what was read of each output
  allocated,   \* the size of the buffer of each output
  child,       \* what the command is doing
  consumed,    \* the input that the command has read
  eof,         \* the command has seen the end of its input
  made,        \* how much it has written to each output
  pipe,        \* contents of the pipes
  readers,     \* processes that have the reading end of the input open
  writers      \* processes that have the writing end of each pipe open

parentVars == <<pc, input, position, want, ready, output, allocated>>
childVars == <<child, consumed, eof, made>>
pipeVars == <<pipe, readers, writers>>
vars == <<parentVars, childVars, pipeVars>>

Outputs == {"out", "err"}
Pipes == {"in"} \union Outputs

Bytes(n) == [i \in 1..n |-> i]
Smaller(a, b) == IF a < b THEN a ELSE b
Put(p, bytes) == pipe' = [pipe EXCEPT ![p] = @ \o bytes]

-----------------------------------------------------------------------------
(* The parent.                                                             *)

(* pipe, fork and exec; each side closes the ends of the other.            *)
Start ==
  /\ pc = "idle"
  /\ pc' = "first"
  /\ \E n \in 0..MaxInput : input' = Bytes(n)
  /\ position' = 0
  /\ want' = Pipes
  /\ ready' = {}
  /\ output' = [o \in Outputs |-> <<>>]
  /\ allocated' = [o \in Outputs |-> BaseSize]
  /\ child' = "run"
  /\ consumed' = <<>>
  /\ eof' = FALSE
  /\ made' = [o \in Outputs |-> 0]
  /\ pipe' = [p \in Pipes |-> <<>>]
  /\ readers' = {"child"}
  /\ writers' = [p \in Pipes |-> IF p = "in" THEN {"parent"} ELSE {"child"}]

(* The next descriptor that select reported, or the head of the loop.      *)
Served(p) ==
  /\ ready' = ready \ {p}
  /\ pc' = IF ready' = {} THEN "loop" ELSE "serve"

(* Faulty: a partial write counts as a whole one.                          *)
Mutant_Write(bytes) ==
  /\ Put("in", bytes)
  /\ position' = Len(input)

(* write() took these bytes.                                               *)
Write(bytes) ==
  /\ Put("in", bytes)
  /\ position' = position + Len(bytes)

(* feed_data, once before the loop and whenever the pipe has room: the end *)
(* is closed one call after the last byte.  With nobody left to read, the  *)
(* write raises SIGPIPE, or check() ends the process.                      *)
Feed ==
  /\ pc = "first" \/ (pc = "serve" /\ "in" \in ready)
  /\ \/ /\ position = Len(input)
        /\ writers' = [writers EXCEPT !["in"] = @ \ {"parent"}]
        /\ want' = want \ {"in"}
        /\ Served("in")
        /\ UNCHANGED <<position, pipe>>
     \/ /\ position < Len(input) /\ readers # {}
        /\ \E k \in 1..Smaller(Len(input) - position, PipeSize - Len(pipe["in"])) :
             Write(SubSeq(input, position + 1, position + k))
        /\ Served("in")
        /\ UNCHANGED <<want, writers>>
     \/ /\ position < Len(input) /\ readers = {}
        /\ pc' = "dead"
        /\ UNCHANGED <<position, want, ready, pipe, writers>>
  /\ UNCHANGED <<input, output, allocated, childVars, readers>>

Ready(p) ==
  IF p = "in" THEN Len(pipe["in"]) < PipeSize \/ readers = {}
              ELSE pipe[p] # <<>> \/ writers[p] = {}

(* Faulty: select is asked about descriptors that are closed.              *)
Mutant_Asked == Pipes

(* The descriptors in the sets for select.                                 *)
Asked == want

(* select blocks until a descriptor it was asked about is ready.           *)
Select ==
  /\ pc = "loop"
  /\ want # {}
  /\ ready' = {p \in Asked : Ready(p)}
  /\ ready' # {}
  /\ pc' = "serve"
  /\ UNCHANGED <<input, position, want, output, allocated, childVars, pipeVars>>

(* Faulty: the buffer does not grow, and read() is given no room.          *)
Mutant_Room(o) == allocated[o]

(* The size of the buffer that read_data reads into.                       *)
Room(o) == IF allocated[o] = Len(output[o]) THEN 2 * allocated[o] ELSE allocated[o]

(* Faulty: the whole buffer is offered, whatever is in it already.         *)
Mutant_Offered(o, size) == size

(* How much of the buffer is offered to read().                            *)
Offered(o, size) == size - Len(output[o])

(* Faulty: every read() goes to the start of the buffer.                   *)
Mutant_Appended(buffer, bytes) == bytes

(* read() puts the bytes behind what was received before.                  *)
Appended(buffer, bytes) == buffer \o bytes

(* Faulty: the end of an output is taken for "try again".                  *)
Mutant_Unclosed(n) == TRUE

(* read_data's answer: read() of 0 bytes is the end.                       *)
Unclosed(n) == n > 0

(* read_data; read() of 0 bytes closes the pipe.                           *)
ReadData(o) ==
  LET n == Smaller(Len(pipe[o]), Offered(o, allocated'[o]))
  IN  /\ pc = "serve"
      /\ o \in ready /\ "in" \notin ready /\ (o = "err" => "out" \notin ready)
      /\ allocated' = [allocated EXCEPT ![o] = Room(o)]
      /\ output' = [output EXCEPT ![o] = Appended(@, SubSeq(pipe[o], 1, n))]
      /\ pipe' = [pipe EXCEPT ![o] = SubSeq(@, n + 1, Len(@))]
      /\ want' = IF Unclosed(n) THEN want ELSE want \ {o}
      /\ Served(o)
      /\ UNCHANGED <<input, position, childVars, readers, writers>>

LoopEnds ==
  /\ pc = "loop"
  /\ want = {}
  /\ pc' = "wait"
  /\ UNCHANGED <<input, position, want, ready, output, allocated, childVars, pipeVars>>

(* waitpid, and back to Lua with the outputs.                              *)
Return ==
  /\ pc = "wait"
  /\ child = "exited"
  /\ pc' = "idle"
  /\ UNCHANGED <<input, position, want, ready, output, allocated, childVars, pipeVars>>

-----------------------------------------------------------------------------
(* The command and what it leaves behind.                                  *)

(* It enters a call that may block.                                        *)
ChildCalls ==
  /\ child = "run"
  /\ \/ child' = "read" /\ "child" \in readers /\ ~eof
     \/ \E o \in Outputs : child' = o /\ "child" \in writers[o] /\ made[o] < MaxOutput
  /\ UNCHANGED <<parentVars, consumed, eof, made, pipeVars>>

ChildReads ==
  /\ child = "read"
  /\ child' = "run"
  /\ \/ \E k \in 1..Len(pipe["in"]) :
          /\ consumed' = consumed \o SubSeq(pipe["in"], 1, k)
          /\ pipe' = [pipe EXCEPT !["in"] = SubSeq(@, k + 1, Len(@))]
          /\ UNCHANGED eof
     \/ /\ pipe["in"] = <<>> /\ writers["in"] = {}
        /\ eof' = TRUE
        /\ UNCHANGED <<consumed, pipe>>
  /\ UNCHANGED <<parentVars, made, readers, writers>>

ChildWrites(o) ==
  /\ child = o
  /\ child' = "run"
  /\ Len(pipe[o]) < PipeSize
  /\ Put(o, <<made[o] + 1>>)
  /\ made' = [made EXCEPT ![o] = @ + 1]
  /\ UNCHANGED <<parentVars, consumed, eof, readers, writers>>

ChildCloses ==
  /\ child = "run"
  /\ \/ "child" \in readers
        /\ readers' = readers \ {"child"} /\ UNCHANGED writers
     \/ \E o \in Outputs : "child" \in writers[o]
        /\ writers' = [writers EXCEPT ![o] = @ \ {"child"}] /\ UNCHANGED readers
  /\ UNCHANGED <<parentVars, childVars, pipe>>

(* A background process inherits what is open; a shell gives it another    *)
(* input, another program may not.                                         *)
ChildForks ==
  /\ child = "run"
  /\ \/ UNCHANGED readers
     \/ "child" \in readers /\ readers' = {"child", "heir"}
  /\ writers' = [p \in Pipes |-> IF "child" \in writers[p] THEN {"child", "heir"} ELSE writers[p]]
  /\ UNCHANGED <<parentVars, childVars, pipe>>

ChildExits ==
  /\ child = "run"
  /\ child' = "exited"
  /\ readers' = readers \ {"child"}
  /\ writers' = [p \in Pipes |-> writers[p] \ {"child"}]
  /\ UNCHANGED <<parentVars, consumed, eof, made, pipe>>

HeirEnds ==
  /\ "heir" \in readers \/ \E p \in Pipes : "heir" \in writers[p]
  /\ readers' = readers \ {"heir"}
  /\ writers' = [p \in Pipes |-> writers[p] \ {"heir"}]
  /\ UNCHANGED <<parentVars, childVars, pipe>>

(* The client comes back after its session died: a new process.            *)
Reconnect ==
  /\ pc = "dead"
  /\ pc' = "idle"
  /\ input' = <<>> /\ position' = 0 /\ want' = {} /\ ready' = {}
  /\ output' = [o \in Outputs |-> <<>>] /\ allocated' = [o \in Outputs |-> BaseSize]
  /\ child' = "exited" /\ consumed' = <<>> /\ eof' = FALSE /\ made' = [o \in Outputs |-> 0]
  /\ pipe' = [p \in Pipes |-> <<>>] /\ readers' = {} /\ writers' = [p \in Pipes |-> {}]

-----------------------------------------------------------------------------
Init ==
  /\ pc = "idle"
  /\ input = <<>> /\ position = 0 /\ want = {} /\ ready = {}
  /\ output = [o \in Outputs |-> <<>>] /\ allocated = [o \in Outputs |-> BaseSize]
  /\ child = "exited" /\ consumed = <<>> /\ eof = FALSE /\ made = [o \in Outputs |-> 0]
  /\ pipe = [p \in Pipes |-> <<>>] /\ readers = {} /\ writers = [p \in Pipes |-> {}]

Parent == Feed \/ Select \/ (\E o \in Outputs : ReadData(o)) \/ LoopEnds \/ Return

ChildWork == ChildCalls \/ ChildReads \/ (\E o \in Outputs : ChildWrites(o)) \/ ChildExits

Next == Start \/ Parent \/ ChildWork \/ ChildCloses \/ ChildForks \/ HeirEnds \/ Reconnect

Spec == Init /\ [][Next]_vars

(* The command goes on when none of its calls blocks, and what it leaves   *)
(* in the background ends or closes the outputs.                           *)
FairSpec == Spec /\ WF_vars(Parent) /\ WF_vars(ChildWork) /\ WF_vars(HeirEnds)

-----------------------------------------------------------------------------
TypeOK ==
  /\ pc \in {"idle", "first", "loop", "serve", "wait", "dead"}
  /\ position \in 0..Len(input)
  /\ want \subseteq Pipes
  /\ ready \subseteq want
  /\ \A o \in Outputs : Len(output[o]) <= MaxOutput /\ allocated[o] >= BaseSize
  /\ child \in {"run", "read", "out", "err", "exited"}
  /\ eof \in BOOLEAN
  /\ made \in [Outputs -> 0..MaxOutput]
  /\ \A p \in Pipes : Len(pipe[p]) <= PipeSize
  /\ readers \subseteq {"child", "heir"}
  /\ writers \in [Pipes -> SUBSET {"child", "parent", "heir"}]

(* The command gets the input as it is, through partial writes and reads,  *)
(* and sees its end only after the last byte (feed_data's close).          *)
InputInOrder ==
  /\ consumed \o pipe["in"] = SubSeq(input, 1, position)
  /\ eof => consumed = input

(* Nothing that was read is lost or read twice while the buffers grow.     *)
OutputInOrder == \A o \in Outputs : output[o] \o pipe[o] = Bytes(made[o])

(* read() is never offered more than the buffer has room for.              *)
BufferFits == \A o \in Outputs : Len(output[o]) <= allocated[o]

(* What run_command returns is everything that the command wrote, and the  *)
(* command has ended: "Returns (ecode, stdout, stderr)".                   *)
ReturnsAll ==
  pc = "idle" => child = "exited" /\ \A o \in Outputs : output[o] = Bytes(made[o])

(* Parent and command never wait for each other for ever.                  *)
CommandReturns == pc # "idle" ~> pc \in {"idle", "dead"}

(* run_command returns its "(ecode, stdout, stderr)" (interpreter.c:177),  *)
(* also of a command that failed before it had read its input.             *)
SessionSurvives == pc # "dead"
=============================================================================
