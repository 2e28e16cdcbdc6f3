------------------------------- MODULE AlAudio ------------------------------
(***************************************************************************)
(* The audio thread, client/openal/alaudio.cpp: the thread of              *)
(* ThreadLifecycle, whose loop updates the streams in m_streams and deletes*)
(* those that are over.  OpenAL plays meanwhile.                           *)
(*                                                                         *)
(* playFile, which would start a stream, is commented out of the interface *)
(* (core/audioiface.hpp:10, alaudio.hpp:23), so the program plays nothing  *)
(* yet.  PlayFile is what StreamingFile's comments say of its use: a       *)
(* stream is made, played and put into m_streams, which has no lock and    *)
(* can only be changed between two passes of the loop.                     *)
(***************************************************************************)
EXTENDS ThreadLifecycle, StreamingFile

CONSTANT Streams  \* the StreamingFile objects

VARIABLE todo     \* the streams the loop has still to update in this pass

audioVars == <<streamVars, todo>>
allVars == <<vars, audioVars>>

Live == {s \in Streams : stream[s].life = "live"}   \* m_streams

AudioInit ==
  /\ Init
  /\ stream = [s \in Streams |-> NewStream]
  /\ previous_result = TRUE
  /\ todo = {}

(* A header that is not accepted throws out of play. *)
PlayFile(s, h) ==
  /\ workerPc = "loop" /\ todo = {}
  /\ stream[s].life = "new"
  /\ IF Accepted(h)
       THEN \E len \in Lengths, ok \in Usable(h) :
              stream' = [stream EXCEPT ![s] =
                           Play([NewStream EXCEPT !.life = "live", !.len = len, !.usable = ok])]
       ELSE stream' = [stream EXCEPT ![s].life = "failed"]
  /\ UNCHANGED <<vars, previous_result, todo>>

(* A pass begins, or the loop ends. *)
NextPass ==
  /\ todo = {}
  /\ LoopCheck
  /\ todo' = IF m_finish THEN {} ELSE Live
  /\ UNCHANGED streamVars

(* One stream is updated, and deleted if it is over. *)
UpdateStream(s) ==
  /\ s \in todo
  /\ todo' = todo \ {s}
  /\ stream' = [stream EXCEPT ![s] = [Updated(stream[s]) EXCEPT !.life = IF GivesUp(stream[s]) THEN "over" ELSE @]]
  /\ previous_result' = PreviousResult(stream[s])
  /\ UNCHANGED vars

(* After the loop all streams are deleted, then OpenAL is closed. *)
CloseAudio ==
  /\ Cleanup
  /\ stream' = [s \in Streams |-> IF s \in Live THEN [stream[s] EXCEPT !.life = "deleted"] ELSE stream[s]]
  /\ UNCHANGED <<previous_result, todo>>

AudioThread ==
  \/ (Initialise \/ NotifyUp \/ Lower \/ NotifyDown) /\ UNCHANGED audioVars
  \/ NextPass
  \/ \E s \in Streams : UpdateStream(s)
  \/ CloseAudio

Owners ==
  \/ Launch \/ CtorCheck \/ Delete
  \/ \E w \in Waiters : Finish(w) \/ WaitForTermination(w) \/ FinishCheck(w)
  \/ SpuriousWake

AudioNext ==
  \/ AudioThread
  \/ Owners /\ UNCHANGED audioVars
  \/ \E s \in Streams : \E h \in Headers : PlayFile(s, h)
  \/ \E s \in Streams : SourcePlays(s) /\ UNCHANGED <<vars, todo>>

AudioSpec == AudioInit /\ [][AudioNext]_allVars

(* As in ThreadLifecycle; and a source that plays gets on. *)
AudioFairness ==
  /\ WF_allVars(Launch /\ UNCHANGED audioVars)
  /\ WF_allVars(CtorCheck /\ UNCHANGED audioVars)
  /\ WF_allVars(AudioThread)
  /\ \A w \in Waiters : WF_allVars(FinishCheck(w) /\ UNCHANGED audioVars)
  /\ \A s \in Streams : WF_allVars(SourcePlays(s) /\ UNCHANGED <<vars, todo>>)

AudioFairSpec == AudioSpec /\ AudioFairness
-----------------------------------------------------------------------------
(* A stream is heard from its beginning and without a gap or a repetition, *)
(* however late the thread is: the two buffers alternate, and the one that *)
(* is filled is never one that the source has still to play                *)
(* (streamingfile.cpp:24-47, streamingwav.cpp:74-88).                      *)
HeardInOrder ==
  \A s \in Streams :
    LET heard == stream[s].heard
    IN  \A i \in 1..Len(heard) : heard[i][1] = IF i = 1 THEN 0 ELSE heard[i - 1][2]

HeardUpTo(s) == LET heard == stream[s].heard
                IN IF heard = <<>> THEN 0 ELSE heard[Len(heard)][2]

Alone(s) == \A t \in Streams \ {s} : stream[t].life \in {"new", "failed"}

(* "\return False if there is no more data to play" (streamingfile.hpp:22):*)
(* a stream that update has ended was heard to its end, if no other stream *)
(* was ever played and its source never ran dry.  With other streams,      *)
(* which share previous_result, its last block may be missing but no more  *)
(* (streamingfile.cpp:27-38).                                              *)
PlayedToTheEnd ==
  \A s \in Streams :
    LET r == stream[s]
    IN  r.life = "over" /\ r.usable /\ ~r.starved
          => r.len - HeardUpTo(s) <= IF Alone(s) THEN 0 ELSE BufferLen

(* A stream that nobody else disturbs ends and is deleted, even if its     *)
(* source has stopped early (streamingfile.cpp:24-41, alaudio.cpp:41-51).  *)
StreamEnds ==
  \A s \in Streams :
    []Alone(s) => (stream[s].life = "live" ~> stream[s].life \in {"over", "deleted"})

=============================================================================
