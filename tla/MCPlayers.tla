------------------------------ MODULE MCPlayers ------------------------------
(***************************************************************************)
(* The two players of moving wallpapers, of videos (MovPlayer) and of      *)
(* dynamic images in a decoder process (HeicPlayer).  A consumer has one   *)
(* of them, so a behaviour is one of `part` and the other stands still.    *)
(***************************************************************************)
EXTENDS MovPlayer

CONSTANTS Torn, PipeSize, MaxFrames   \* of HeicPlayer

VARIABLES
    part,
    h_consumer, h_pending_heic, h_signalled, h_pending, h_failed, h_stopping, h_slot,
    h_supervisor, h_relayed, h_reported, h_child, h_pipe, h_reading, h_written, h_host

Heic == INSTANCE HeicPlayer
    WITH consumer <- h_consumer, pending_heic <- h_pending_heic,
         signalled <- h_signalled, pending <- h_pending, failed <- h_failed,
         stopping <- h_stopping, slot <- h_slot, supervisor <- h_supervisor,
         relayed <- h_relayed, reported <- h_reported, child <- h_child,
         pipe <- h_pipe, reading <- h_reading, written <- h_written, host <- h_host

ASSUME HeicAssumption == Heic!SizeAssumption

heicVars == <<h_consumer, h_pending_heic, h_signalled, h_pending, h_failed, h_stopping, h_slot,
              h_supervisor, h_relayed, h_reported, h_child, h_pipe, h_reading, h_written,
              h_host>>
mcVars == <<part, vars, heicVars>>

-----------------------------------------------------------------------------
\* In the behaviours of one player, the other stands in one of its initial states.
MCInit ==
    /\ part \in {"mov", "heic"}
    /\ Init /\ Heic!Init
    /\ part # "mov" => consumer.kind = "lock" /\ consumer.poster = Poster /\ consumer.source
    /\ part # "heic" => h_consumer.kind = "lock"

MCNext ==
    \/ part = "mov" /\ Next /\ UNCHANGED <<part, heicVars>>
    \/ part = "heic" /\ Heic!Next /\ UNCHANGED <<part, vars>>

\* Fairness of each, in the behaviours that are its own.
MCFairness ==
    /\ WF_vars(part = "mov" /\ Worker) /\ SF_vars(part = "mov" /\ Null)
    /\ WF_vars(part = "mov" /\ PublishFrame) /\ WF_vars(part = "mov" /\ Take)
    /\ WF_vars(part = "mov" /\ Allocated) /\ WF_vars(part = "mov" /\ Tick)
    /\ WF_heicVars(part = "heic" /\ Heic!Supervisor)
    /\ WF_heicVars(part = "heic" /\ Heic!Take)
    /\ WF_heicVars(part = "heic" /\ Heic!Allocated)
    /\ WF_heicVars(part = "heic" /\ Heic!bind_to_parent)

MCSpec == MCInit /\ [][MCNext]_mcVars /\ MCFairness

-----------------------------------------------------------------------------
(* Properties *)

\* What threads and processes hand to each other stays valid: the loop request
\* and the held frame are those of this pass, a failure waits until it is taken,
\* and the process that a cancellation kills is the decoder that was not reaped
\* (begin_loop_at, publish_frame, fail_once; signal_heic_child, reap_heic_child,
\* HeicWorkerGuard).
HandoversAreCurrent ==
    /\ part = "mov" => TypeOK /\ LoopRequestIsCurrent /\ HeldFrameSurvivesSeek /\ FailureIsKept
    /\ part = "heic" => /\ Heic!TypeOK /\ Heic!SlotHoldsUnreapedChild
                        /\ Heic!SupervisorLeavesNoChild /\ Heic!PublishedFailureIsReported

\* No frame shows after a failure, and no older frame nor the poster comes back
\* (finish_allocation, stop_after_terminal_failure, stop_playback).
BackgroundNeverRegresses ==
    [][/\ part = "mov" => NoFrameAfterFailure
       /\ part = "heic" => Heic!BackgroundNeverRegresses]_mcVars

\* No player freezes or leaks: a stalled video, a failure and the death of a
\* decoder reach the consumer, which drops the player; that returns; and the
\* decoder is reaped, also when the host is killed (playback_stall, fail_once,
\* Drop for Player, supervise_heic_decoder, bind_to_parent).
PlaybackNeverFreezes ==
    /\ part = "mov" => FailureIsTaken /\ VideoNeverFreezes /\ JoinReturns
    /\ part = "heic" => /\ Heic!CancelledDecoderIsReaped /\ Heic!DecoderDeathIsTaken
                        /\ Heic!NoOrphan
=============================================================================
