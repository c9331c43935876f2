------------------------------ MODULE CtrlPipe ------------------------------
(***************************************************************************)
(* The bytes of the control pipe of skynet_net_demo/socket_server.c.       *)
(* send_request writes a type byte, a length byte and the payload in one   *)
(* write, which a pipe keeps together; ctrl_cmd reads two bytes, takes the *)
(* second for a length, and reads that many, while other threads write.    *)
(* The length goes through a char, which is signed where the code is built *)
(* (x86): more than CharMax comes back negative.                           *)
(***************************************************************************)
EXTENDS Integers, Sequences

CONSTANTS
  CharMax,     \* the largest signed char (127 in the code)
  Lengths,     \* lengths of payloads
  PipeSize     \* bytes the pipe holds before a write blocks

ASSUME CharAssumption == CharMax \in Nat \ {0}
ASSUME LengthAssumption == Lengths \subseteq 0 .. 2 * CharMax + 1
ASSUME PipeAssumption == PipeSize \in Nat

Bytes == 0 .. 2 * CharMax + 1
Signed(b) == IF b > CharMax THEN b - 2 * (CharMax + 1) ELSE b
Garbage == <<-1>>                  \* what was in ctrl_cmd's buffer before

\* Requests: every type, and payloads of every length, all of one byte.
Request == UNION {[type : {0, 1}, payload : {[i \in 1 .. n |-> b] : b \in Bytes}] :
                    n \in Lengths}

VARIABLES
  pipe,        \* the bytes in the pipe
  sent,        \* history: the requests written and not yet handled
  pc,          \* where ctrl_cmd is
  type, len,   \* its locals type and len, after the conversion
  payload,     \* its local buffer
  aborted      \* an assertion has failed
vars == <<pipe, sent, pc, type, len, payload, aborted>>

Init ==
  /\ pipe = <<>> /\ sent = <<>>
  /\ pc = "idle" /\ type = 0 /\ len = 0 /\ payload = <<>>
  /\ aborted = FALSE

LengthByte_total(n) == n + 2                     \* mutant: the header counted
LengthByte(n) == n                               \* (char)len, as a byte
send_request ==
  /\ ~aborted
  /\ \E r \in Request :
       LET bytes == <<r.type, LengthByte(Len(r.payload))>> \o r.payload IN
       /\ Len(pipe) + Len(bytes) =< PipeSize
       /\ pipe' = pipe \o bytes
       /\ sent' = Append(sent, r)
  /\ UNCHANGED <<pc, type, len, payload, aborted>>

\* A read of n > 0 bytes waits for the first and takes what is there; the
\* assertion of block_readpipe wants all of them.
block_readpipe(n, then) ==
  /\ pipe # <<>>
  /\ IF Len(pipe) < n
     THEN aborted' = TRUE /\ UNCHANGED <<pipe, pc, type, len, payload>>
     ELSE /\ pipe' = SubSeq(pipe, n + 1, Len(pipe))
          /\ pc' = then /\ UNCHANGED aborted

ReadHeader ==
  /\ ~aborted /\ pc = "idle"
  /\ block_readpipe(2, "body")
  /\ ~aborted' => /\ type' = pipe[1] /\ len' = Signed(pipe[2])
                  /\ UNCHANGED payload
  /\ UNCHANGED sent

\* read fails for a negative size: an error is printed, nothing else happens.
ReadPayload ==
  /\ ~aborted /\ pc = "body"
  /\ IF len > 0
     THEN /\ block_readpipe(len, "handle")
          /\ ~aborted' => /\ payload' = SubSeq(pipe, 1, len)
                          /\ UNCHANGED <<type, len>>
     ELSE /\ payload' = IF len = 0 THEN <<>> ELSE Garbage
          /\ pc' = "handle"
          /\ UNCHANGED <<pipe, type, len, aborted>>
  /\ UNCHANGED sent

\* The switch of ctrl_cmd; sent is empty when bytes of a payload pass for one
\* more request.
Handle ==
  /\ ~aborted /\ pc = "handle"
  /\ pc' = "idle"
  /\ sent' = IF sent = <<>> THEN <<>> ELSE Tail(sent)
  /\ type' = 0 /\ len' = 0 /\ payload' = <<>>
  /\ UNCHANGED <<pipe, aborted>>

Next == send_request \/ ReadHeader \/ ReadPayload \/ Handle
Spec == Init /\ [][Next]_vars

-----------------------------------------------------------------------------
\* The assertion of block_readpipe (socket_server.c:294): a read returns all of
\* the bytes asked for.
PipeAssertHolds == ~aborted

\* The bytes keep the requests apart: what ctrl_cmd handles is the oldest request
\* written, with its own payload, whatever was written meanwhile.  (SocketServer
\* models the pipe as a queue of whole requests.)
FramingKept ==
  pc = "handle" => /\ sent # <<>>
                   /\ Head(sent) = [type |-> type, payload |-> payload]

==============================================================================
