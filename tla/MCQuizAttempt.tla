---------------------------- MODULE MCQuizAttempt ----------------------------
(* A paper with a choice question and an essay.                            *)
EXTENDS QuizAttempt
=============================================================================
