------------------------------ MODULE MCElmLink ------------------------------
(* The instances of ElmLink that TLC checks.                                *)
EXTENDS ElmLink

MCByte == Cmds \X Kinds
MCZero == <<0, "nul">>

\* Answers shorter than the buffer, as from one control unit of the car; the
\* longest fills the FIFO.
ShortAnswers == { <<"prompt">>, <<"data", "prompt">>,
                  <<"data", "data", "data", "prompt">> }

\* An answer of several control units that is longer than the buffer.
LongAnswers == { <<"data", "prompt">>,
                 <<"data", "data", "data", "data", "prompt">> }
==============================================================================
