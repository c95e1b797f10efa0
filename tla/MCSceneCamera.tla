----------------------------- MODULE MCSceneCamera -----------------------------
(* Constants of SceneCamera for TLC.                                        *)
EXTENDS SceneCamera, TLC

AllOk == [camera |-> "ok", release |-> "ok", lock |-> "ok"]

\* Every answer is as asked.
MCNoFault == {AllOk}

\* At most one API misbehaves during one step; a wrong thread is wrong for
\* every call of that API.
MCOneFault == {e \in Answers : \/ e.camera = "ok" /\ e.release = "ok"
                               \/ e.camera = "ok" /\ e.lock = "ok"
                               \/ e.release = "ok" /\ e.lock = "ok"}

\* The camera API alone misbehaves.
MCReleaseFault == {AllOk, [AllOk EXCEPT !.release = "fails"]}

MCKeySymmetry == Permutations(Keys)
=============================================================================
