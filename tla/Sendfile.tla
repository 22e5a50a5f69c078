------------------------------ MODULE Sendfile ------------------------------
(***************************************************************************)
(* impl/sendfile_operation_posix.ipp: an asynchronous operation that sends *)
(* a part of a file.  For a plain TCP socket it calls sendfile64 until the *)
(* socket would block and waits for it to be writable again; for any other *)
(* socket it reads a portion of the file and writes it.  sendfile.hpp says *)
(* which part of the file is sent.                                         *)
(*                                                                         *)
(* The octets of a file are their positions.  Another process may cut the  *)
(* file off while it is being sent.  The kernel and asio are the           *)
(* environment: a call may do a part of the work, all of it, or fail.      *)
(***************************************************************************)
EXTENDS Integers, Sequences

CONSTANTS
    FileSizes,  \* The sizes of the file when it is opened.
    PartSizes,  \* The sizes given to offset_and_size.
    ChunkSizes, \* The values given to chunk_size; 0 asks for the default.
    DefaultChunk, MaxChunk

ASSUME SendfileAssumption ==
    /\ FileSizes \subseteq Nat /\ PartSizes \subseteq Nat /\ ChunkSizes \subseteq Nat
    /\ DefaultChunk \in Nat \ {0} /\ MaxChunk \in Nat \ {0}

VARIABLES
    socket,     \* "tcp" for a plain TCP socket, else "other".
    range,      \* m_offset and m_size of the sendfile_t.
    file_size,  \* The size of the file now.
    runner,     \* The fields of sendfile_operation_runner_t.
    at,         \* What the operation is doing.
    buffer,     \* The octets of the write in progress.
    wire,       \* The octets that the socket has taken.
    told        \* The calls of m_after_sendfile_cb.

sendfileVars == <<socket, range, file_size, runner, at, buffer, wire, told>>

clarify_chunk_size(n) == IF n = 0 THEN DefaultChunk ELSE IF MaxChunk < n THEN MaxChunk ELSE n

Least(a, b) == IF a < b THEN a ELSE b

offset_and_size(total, offset, size) ==
    [m_offset |-> offset, m_size |-> Least(total - offset, size)]

\* start_sendfile_operation: the runner is made; items of size 0 are not sent.
SendfileInit ==
    /\ socket \in {"tcp", "other"}
    /\ file_size \in FileSizes
    /\ \E offset \in 0..file_size, size \in PartSizes, chunk \in ChunkSizes :
         /\ range = offset_and_size(file_size, offset, size)
         /\ range.m_size > 0
         /\ runner = [m_next_write_offset |-> range.m_offset, m_remained_size |-> range.m_size,
                      m_transfered_size |-> 0, m_chunk_size |-> clarify_chunk_size(chunk)]
    /\ at = "start" /\ buffer = <<>> /\ wire = <<>> /\ told = <<>>

m_after_sendfile_cb(ec) ==
    /\ told' = Append(told, [ec |-> ec, written |-> runner'.m_transfered_size])
    /\ at' = "idle"

Goes(to) == at' = to /\ UNCHANGED told

\* The octets that one call asks for, those the file has, and n of them.
Portion == Least(runner.m_remained_size, runner.m_chunk_size)

Available ==
    IF runner.m_next_write_offset < file_size
    THEN file_size - runner.m_next_write_offset ELSE 0

OctetsFrom(offset, n) == [i \in 1..n |-> offset + i - 1]

Octets(n) == OctetsFrom(runner.m_next_write_offset, n)

Transferred(n) ==
    runner' = [runner EXCEPT !.m_remained_size = @ - n, !.m_transfered_size = @ + n]

-----------------------------------------------------------------------------
(* The runner of a plain TCP socket. *)
try_turn_non_blocking_mode ==
    /\ socket = "tcp" /\ at \in {"start", "again"}
    /\ UNCHANGED runner
    /\ Goes("sendfile") \/ m_after_sendfile_cb("non_blocking")
    /\ UNCHANGED <<socket, range, file_size, buffer, wire>>

\* async_wait is started, or throws.
try_initiate_waiting_for_write_readiness ==
    Goes("waiting") \/ m_after_sendfile_cb("async_write_call_failed")

\* One turn of the loop of init_next_write.
SendfileCall ==
    /\ socket = "tcp" /\ at = "sendfile"
    /\ \/ /\ runner.m_remained_size = 0
          /\ UNCHANGED <<runner, wire>>
          /\ try_initiate_waiting_for_write_readiness
       \/ /\ runner.m_remained_size > 0
          /\ \E n \in 1..Least(Portion, Available) :
               /\ wire' = wire \o Octets(n)
               /\ runner' = [runner EXCEPT !.m_next_write_offset = @ + n,
                                           !.m_remained_size = @ - n,
                                           !.m_transfered_size = @ + n]
               /\ Goes("sendfile")
       \/ \* EAGAIN or EINTR, or nothing left in the file.
          /\ runner.m_remained_size > 0
          /\ UNCHANGED <<runner, wire>>
          /\ try_initiate_waiting_for_write_readiness
       \/ /\ runner.m_remained_size > 0
          /\ UNCHANGED <<runner, wire>>
          /\ m_after_sendfile_cb("sendfile_failed")
    /\ UNCHANGED <<socket, range, file_size, buffer>>

\* A plausible slip: the operation is over once the socket is writable.
WaitEndsOperation ==
    /\ socket = "tcp" /\ at = "waiting"
    /\ UNCHANGED <<socket, range, file_size, runner, buffer, wire>>
    /\ m_after_sendfile_cb("ok") \/ m_after_sendfile_cb("wait_failed")

\* The handler of async_wait.
WriteReady ==
    /\ socket = "tcp" /\ at = "waiting"
    /\ UNCHANGED <<socket, range, file_size, runner, buffer, wire>>
    /\ \/ IF runner.m_remained_size = 0 THEN m_after_sendfile_cb("ok") ELSE Goes("again")
       \/ m_after_sendfile_cb("wait_failed")

-----------------------------------------------------------------------------
(* The runner of any other socket. *)
StartReading ==
    /\ socket = "other" /\ at = "start"
    /\ UNCHANGED runner
    /\ Goes("read") \/ m_after_sendfile_cb("lseek_failed")
    /\ UNCHANGED <<socket, range, file_size, buffer, wire>>

\* read: a portion to write, the end of the file, or an error.
ReadPortion ==
    /\ socket = "other" /\ at = "read"
    /\ \/ \E n \in 1..Least(Portion, Available) :
            /\ runner' = [runner EXCEPT !.m_next_write_offset = @ + n]
            /\ \/ buffer' = Octets(n) /\ Goes("writing")
               \/ UNCHANGED buffer /\ m_after_sendfile_cb("async_write_call_failed")
       \/ /\ Available = 0
          /\ UNCHANGED <<runner, buffer>> /\ m_after_sendfile_cb("eof")
       \/ UNCHANGED <<runner, buffer>> /\ m_after_sendfile_cb("read_failed")
    /\ UNCHANGED <<socket, range, file_size, wire>>

\* The handler of async_write, which writes all or fails after a part.
PortionWritten ==
    /\ socket = "other" /\ at = "writing"
    /\ \/ /\ wire' = wire \o buffer
          /\ Transferred(Len(buffer))
          /\ IF runner'.m_remained_size = 0 THEN m_after_sendfile_cb("ok") ELSE Goes("read")
       \/ \E k \in 0..(Len(buffer) - 1) :
            /\ wire' = wire \o SubSeq(buffer, 1, k)
            /\ UNCHANGED runner
            /\ m_after_sendfile_cb("write_failed")
    /\ buffer' = <<>>
    /\ UNCHANGED <<socket, range, file_size>>

\* Another process cuts the file off.
Truncate ==
    /\ at # "idle"
    /\ \E n \in 0..(file_size - 1) : file_size' = n
    /\ UNCHANGED <<socket, range, runner, at, buffer, wire, told>>

SendfileNext ==
    \/ try_turn_non_blocking_mode \/ SendfileCall \/ WriteReady
    \/ StartReading \/ ReadPortion \/ PortionWritten
    \/ Truncate

SendfileSpec == SendfileInit /\ [][SendfileNext]_sendfileVars

-----------------------------------------------------------------------------
(* What is on the wire is the requested part of the file from its first    *)
(* octet on, without a gap.  m_after_sendfile_cb is called at most once    *)
(* and only when nothing is in progress; success is reported only when the *)
(* whole part is on the wire, and the size reported is never more than     *)
(* what is there, nor less if the socket is a plain one                    *)
(* (sendfile_operation_posix.ipp, init_next_write and its handlers).       *)
FileSentExact ==
    /\ wire = OctetsFrom(range.m_offset, Len(wire))
    /\ Len(wire) <= range.m_size
    /\ Len(told) <= 1
    /\ (told # <<>>) <=> (at = "idle")
    /\ \A i \in DOMAIN told :
         /\ told[i].ec = "ok" => Len(wire) = range.m_size /\ told[i].written = range.m_size
         /\ told[i].written <= Len(wire)
         /\ socket = "tcp" => told[i].written = Len(wire)

=============================================================================
