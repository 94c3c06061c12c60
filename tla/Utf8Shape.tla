------------------------------ MODULE Utf8Shape ------------------------------
(***************************************************************************)
(* The tests of utf8_check on the bytes of one code sequence.              *)
(***************************************************************************)
LOCAL INSTANCE Integers
LOCAL INSTANCE Sequences

\* How long a sequence is that starts with byte b; 0 if none does.
SequenceLength(b) ==
  IF b < 128 THEN 1
  ELSE IF b \div 32 = 6 THEN 2
  ELSE IF b \div 16 = 14 THEN 3
  ELSE IF b \div 8 = 30 THEN 4
  ELSE 0

SurrogatesLegal(s) ==
  /\ \A n \in 2 .. Len(s) : s[n] \div 64 = 2
  /\ CASE Len(s) = 2 -> s[1] \div 2 # 96
       [] Len(s) = 3 ->
            /\ ~(s[1] = 224 /\ s[2] \div 32 = 4)
            /\ ~(s[1] = 239 /\ s[2] = 191 /\ s[3] \div 2 = 95)
       [] Len(s) = 4 ->
            /\ ~(s[1] = 240 /\ s[2] \div 16 = 8)
            /\ ~(s[1] = 244 /\ s[2] > 143) /\ s[1] <= 244

\* Continuation bytes, and nothing overlong, no surrogate, U+FFFE or
\* U+FFFF and nothing above U+10FFFF.
LegalSequence(s) ==
  /\ \A n \in 2 .. Len(s) : s[n] \div 64 = 2
  /\ CASE Len(s) = 2 -> s[1] \div 2 # 96
       [] Len(s) = 3 ->
            /\ ~(s[1] = 224 /\ s[2] \div 32 = 4)
            /\ ~(s[1] = 237 /\ s[2] \div 32 = 5)
            /\ ~(s[1] = 239 /\ s[2] = 191 /\ s[3] \div 2 = 95)
       [] Len(s) = 4 ->
            /\ ~(s[1] = 240 /\ s[2] \div 16 = 8)
            /\ ~(s[1] = 244 /\ s[2] > 143) /\ s[1] <= 244
=============================================================================
