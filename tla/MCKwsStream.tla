---------------------------- MODULE MCKwsStream ----------------------------
EXTENDS KwsStream

\* Every legal pair with a step of up to four samples whose overlap is not
\* longer than the step (the code's are 3200 and 3360).
MCSizes == {s \in (1 .. 4) \X (1 .. 7) : s[1] <= s[2] /\ s[2] <= 2 * s[1]}

\* Two channels: files with a space at the end, with more numbers than
\* channels, with a deviation of zero, and with too few numbers.
MCFiles ==
    {<<<<4, Space, -3>>, <<2, Space, 3, Space>>>>,
     <<<<5, Space, 1, Space, 9>>, <<0, Space, 1>>>>,
     <<<<5, Space, 1>>, <<2, Space>>>>}

\* What the theorems about the stream suppose of the constants.
ASSUME Hypotheses == ShortOverlap /\ TwoWindows /\ FilesRead
============================================================================
