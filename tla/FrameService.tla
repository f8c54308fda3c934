---------------------------- MODULE FrameService ----------------------------
(***************************************************************************)
(* What a compressed item promises the video handler: whoever asks for a   *)
(* frame gets the picture with that position in display order. It gets     *)
(* none only if the bitstream does not have the picture, if the decoder    *)
(* has failed, or if the asker is the cache, whose requests may be dropped.*)
(* Nothing is said about decoders, files, units or seeking.                *)
(***************************************************************************)
EXTENDS Integers

CONSTANTS Thread,           \* who asks
          Frame,            \* the frames that can be asked for
          NoFrame

VARIABLES asked,            \* the frame each thread waits for
          answer,           \* the frame each thread asked for last and what it got
          missing,          \* frames the bitstream has no picture for
          failed            \* the decoder is in trouble

Nothing == [frame |-> NoFrame, picture |-> NoFrame]
vars == <<asked, answer, missing, failed>>

Init ==
    /\ asked = [t \in Thread |-> NoFrame]
    /\ answer = [t \in Thread |-> Nothing]
    /\ missing \in SUBSET Frame
    /\ failed = FALSE

Ask(t) ==
    /\ asked[t] = NoFrame
    /\ \E f \in Frame : asked' = [asked EXCEPT ![t] = f]
    /\ answer' = [answer EXCEPT ![t] = Nothing]
    /\ UNCHANGED missing

Reply(t, picture) ==
    /\ asked[t] # NoFrame
    /\ answer' = [answer EXCEPT ![t] = [frame |-> asked[t], picture |-> picture]]
    /\ asked' = [asked EXCEPT ![t] = NoFrame]
    /\ UNCHANGED missing

Serve(t) == Reply(t, asked[t])

Refuse(t) ==
    /\ failed \/ asked[t] \in missing \/ t = "caching"
    /\ Reply(t, NoFrame)

Answer(t) == Serve(t) \/ Refuse(t)

\* With another decoder other frames may be missing. Nobody waits meanwhile.
Replace ==
    /\ \A t \in Thread : asked[t] = NoFrame
    /\ missing' \in SUBSET Frame
    /\ UNCHANGED <<asked, answer>>

\* A decoder may fail and be restarted with any step, and by itself.
Next ==
    /\ failed' \in BOOLEAN
    /\ \/ UNCHANGED <<asked, answer, missing>>
       \/ Replace
       \/ \E t \in Thread : Ask(t) \/ Answer(t)

Spec == Init /\ [][Next]_vars
=============================================================================
