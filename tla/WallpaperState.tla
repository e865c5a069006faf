--------------------------- MODULE WallpaperState ---------------------------
(***************************************************************************)
(* What a consumer of wallpaper frames keeps (wallpaper::State of          *)
(* src/wallpaper.rs): operators on its record, shared by the module of the *)
(* video player and the module of the dynamic HEIC player.                 *)
(*                                                                         *)
(* A consumer is the greeter, which uploads a frame to its renderer before *)
(* it shows it (prepare_latest, then finish_allocation), or the locker,    *)
(* which shows a frame as soon as it takes it (receive_latest).  Pixels    *)
(* are abstracted; what an update carries is left to the player's module.  *)
(***************************************************************************)
EXTENDS Naturals

CONSTANTS NoFrame,   \* frame of a state with no poster; also no update
          Poster,    \* the packaged still image
          Failed     \* Update::Failed

Kinds == {"login", "lock"}

\* State: source is whether a player is held, allocating is allocation_pending,
\* uploading the handle given to the renderer, adopted heic_adopted.
Consumer(Frame) ==
    [kind : Kinds, source : BOOLEAN, poster : {NoFrame, Poster},
     frame : Frame \cup {NoFrame, Poster}, allocating : BOOLEAN,
     uploading : Frame \cup {NoFrame}, adopted : BOOLEAN]

\* State::poster_only and the states State::start builds around a player; the
\* poster may be missing (load_poster) and the player may fail to start.
start(kind, poster, playing) ==
    [kind |-> kind, source |-> playing, poster |-> poster, frame |-> poster,
     allocating |-> FALSE, uploading |-> NoFrame, adopted |-> FALSE]

stop_playback(c) ==
    [c EXCEPT !.allocating = FALSE, !.source = FALSE,
              !.frame = IF @ = NoFrame THEN c.poster ELSE @]

Adopt(c, frame) == [c EXCEPT !.frame = frame, !.adopted = c.adopted \/ c.source]

receive_latest(c, update) ==
    IF update = NoFrame THEN c
    ELSE IF update = Failed THEN stop_playback(c)
    ELSE Adopt(c, update)

\* The update stays with the player while a frame is being uploaded.
Takes(c) == c.source /\ ~c.allocating

prepare_latest(c, update) ==
    IF update = NoFrame THEN c
    ELSE IF update = Failed THEN stop_playback(c)
    ELSE [c EXCEPT !.allocating = TRUE, !.uploading = update]

\* finish_allocation_LateFrame: the bug of not asking the player first.
finish_allocation_LateFrame(c, failed, ok) ==
    LET done == [c EXCEPT !.allocating = FALSE, !.uploading = NoFrame]
    IN  IF ok THEN Adopt(done, c.uploading) ELSE stop_playback(done)

\* failed is Player::has_failed, ok whether the renderer took the frame.
finish_allocation(c, failed, ok) ==
    LET done == [c EXCEPT !.allocating = FALSE, !.uploading = NoFrame]
    IN  IF ~c.allocating THEN done
        ELSE IF failed \/ ~ok THEN stop_playback(done)
        ELSE Adopt(done, c.uploading)
=============================================================================
