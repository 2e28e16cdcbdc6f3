--------------------------- MODULE StreamingFile ----------------------------
(***************************************************************************)
(* An audio file that is streamed through two OpenAL buffers,              *)
(* client/openal/streamingfile.cpp, of the only kind there is, a wav file  *)
(* (client/openal/streamingwav.cpp).  A stream is a record; the operators  *)
(* below are what its member functions make of it, and SourcePlays is what *)
(* OpenAL does meanwhile.                                                  *)
(*                                                                         *)
(* The samples are positions in the file: a buffer holds the positions     *)
(* from one up to another.  A source that has played all it was given      *)
(* stops; what is queued from then on counts as played.                    *)
(***************************************************************************)
EXTENDS Integers, Sequences

CONSTANTS BufferLen,  \* bufferLen(), 2^16 in the code
          Lengths,    \* the lengths of the data blocks
          Headers     \* the headers the files have

ASSUME StreamAssumption == BufferLen \in Nat \ {0} /\ Lengths \subseteq Nat

VARIABLES stream,          \* per StreamingFile its state
          previous_result  \* the static of update, shared by all of them

streamVars == <<stream, previous_result>>

Nothing == <<0, 0>>

(* The members of StreamingFile and StreamingWav, and of the source: the   *)
(* buffers queued, how many of them have been played, and its state.       *)
NewStream ==
  [life |-> "new", len |-> 0, pos |-> 0, next |-> 0, usable |-> FALSE,
   buffer |-> [b \in 0..1 |-> Nothing], queue |-> <<>>, played |-> 0, source |-> "initial",
   heard |-> <<>>,     \* history: what the source has played
   starved |-> FALSE]  \* history: it stopped before the end of the file
-----------------------------------------------------------------------------
(* readHeaders refuses what is not PCM, of 8 or 16 bits, with at most two  *)
(* channels.  No channels at all are accepted, and leave m_format as it    *)
(* was allocated: OpenAL takes it or does not.                             *)
Accepted(h) == /\ h.id = "RIFF WAVE fmt data"
               /\ h.format = 1
               /\ h.bitsPerSample \in {8, 16}
               /\ h.numChannels <= 2

Usable(h) == IF h.numChannels = 0 THEN BOOLEAN ELSE {TRUE}

(* alBufferData: a buffer in use, or a wrong format, changes nothing. *)
InUse(r, b) == \E i \in 1..Len(r.queue) : r.queue[i] = b
BufferData(r, b, data) == IF r.usable /\ ~InUse(r, b) THEN [r.buffer EXCEPT ![b] = data] ELSE r.buffer

(* Faulty variant: the other buffer does not become the next. *)
FillSame(r, data) == [r EXCEPT !.buffer = BufferData(r, r.next, data)]

FillNextBuffer(r, data) ==
  [r EXCEPT !.buffer = BufferData(r, r.next, data), !.next = 1 - r.next]

(* readyNextBuffer; there is data to read as long as HasMore. *)
HasMore(r) == r.len - r.pos > 0

ReadyNextBuffer(r) ==
  LET remaining == r.len - r.pos
      bufsize   == IF BufferLen > remaining THEN remaining ELSE BufferLen
  IN  IF HasMore(r)
        THEN FillNextBuffer([r EXCEPT !.pos = r.pos + bufsize], <<r.pos, r.pos + bufsize>>)
        ELSE r

(* play: both buffers are queued, with data or without. *)
Play(r) == [ReadyNextBuffer(ReadyNextBuffer(r)) EXCEPT !.queue = <<0, 1>>, !.source = "playing"]

(* AL_BUFFERS_PROCESSED. *)
Processed(r) == IF r.source = "stopped" THEN Len(r.queue) ELSE r.played

(* update takes one processed buffer from the source, and queues it again  *)
(* if there was more to fill it with.                                      *)
Unqueued(r) == [r EXCEPT !.queue = Tail(r.queue), !.played = IF r.played > 0 THEN r.played - 1 ELSE 0]

Updated(r) ==
  IF Processed(r) = 0 THEN r
  ELSE IF HasMore(r) THEN [ReadyNextBuffer(Unqueued(r)) EXCEPT !.queue = Append(@, Head(r.queue))]
  ELSE Unqueued(r)

(* Faulty variant: it gives up as soon as there is nothing to fill. *)
GivesUpAtOnce(r) == Processed(r) > 0 /\ ~HasMore(r)

(* It returns false if there was none, and none the time before. *)
GivesUp(r) == Processed(r) > 0 /\ ~HasMore(r) /\ ~previous_result

(* Faulty variant: the result of the last time is not kept. *)
ForgetResult(r) == previous_result
PreviousResult(r) == IF Processed(r) = 0 \/ GivesUp(r) THEN previous_result ELSE HasMore(r)
-----------------------------------------------------------------------------
(* The source has played the next of its buffers. *)
SourcePlays(s) ==
  LET r    == stream[s]
      data == r.buffer[r.queue[r.played + 1]]
      last == r.played + 1 = Len(r.queue)
  IN  /\ r.life = "live"
      /\ r.source = "playing"
      /\ stream' = [stream EXCEPT ![s].played = r.played + 1,
                      ![s].heard = IF data = Nothing THEN @ ELSE Append(@, data),
                      ![s].source = IF last THEN "stopped" ELSE @,
                      ![s].starved = @ \/ (last /\ HasMore(r))]
      /\ UNCHANGED previous_result
=============================================================================
