----------------------------- MODULE Utf8Stream -----------------------------
(***************************************************************************)
(* utf8_check of clib/utf8.h with its callbacks, one step per piece of     *)
(* input, per code sequence and per piece of output.                       *)
(***************************************************************************)
EXTENDS Callbacks, Utf8Check

VARIABLES
  buf,        \* buf[0 .. filled)
  processed,  \* bytes of it that the inner loop has passed
  end         \* the inputter has no more

utf8Vars == <<buf, processed, end>>

Utf8Init == buf = <<>> /\ processed = 0 /\ end = FALSE

Utf8TypeOK ==
  /\ buf \in Seq(Byte) /\ Len(buf) <= Utf8BufLen
  /\ processed \in 0 .. Len(buf)
  /\ end \in BOOLEAN

Checking == input.job = "string" /\ result = "running"
-----------------------------------------------------------------------------
Scan == pc' = "scan" /\ processed' = 0

\* A round: load input data, if there may be some and there is space.
Round ==
  /\ Checking /\ pc = "round" /\ (~end \/ buf # <<>>)
  /\ IF ~end /\ Len(buf) < Utf8BufLen
     THEN CallInputter(Utf8BufLen - Len(buf)) /\ UNCHANGED processed
     ELSE Scan /\ UNCHANGED <<input, inputterVars, feederVars>>
  /\ UNCHANGED <<buf, end>>

Loaded ==
  /\ Checking /\ pc = "got" /\ Scan
  /\ end' = (got = <<>>) /\ buf' = buf \o got
  /\ UNCHANGED <<input, inputterVars, feederVars>>

\* The code sequence at `processed`, which the first byte announces.
Announced == SeqLen(buf[processed + 1])
Sequence == SubSeq(buf, processed + 1, processed + Announced)
Whole == processed + Announced <= Len(buf)

Scanning == Checking /\ pc = "scan" /\ processed < Len(buf)

PassSequence ==
  /\ Scanning /\ Announced # 0 /\ Whole
  /\ Announced > 1 => Legal(Sequence)
  /\ processed' = processed + Announced
  /\ UNCHANGED <<callbackVars, buf, end>>

\* Codes 1 to 4.
Malforms ==
  /\ Scanning
  /\ Announced = 0 \/ (Announced > 1 /\ Whole /\ ~Legal(Sequence))
  /\ Return("malformed")
  /\ UNCHANGED <<input, inputterVars, fed, utf8Vars>>

\* waiting_for_data: code 5 if there is none to wait for.
Waits ==
  /\ Scanning /\ Announced # 0 /\ ~Whole
  /\ IF end THEN Return("malformed") ELSE pc' = "output" /\ UNCHANGED result
  /\ UNCHANGED <<input, inputterVars, fed, utf8Vars>>

ScanEnds ==
  /\ Checking /\ pc = "scan" /\ processed = Len(buf) /\ pc' = "output"
  /\ UNCHANGED <<input, inputterVars, feederVars, utf8Vars>>

\* The whole buffer goes out; what was not processed stays in it.
Output ==
  /\ Checking /\ pc = "output"
  /\ \/ /\ Takes(buf) /\ pc' = "round"
        /\ buf' = SubSeq(buf, processed + 1, Len(buf)) /\ processed' = 0
     \/ Refuses /\ UNCHANGED <<buf, processed>>
  /\ UNCHANGED <<input, inputterVars, end>>

Utf8Ends ==
  /\ Checking /\ pc = "round" /\ end /\ buf = <<>>
  /\ Return("ok")
  /\ UNCHANGED <<input, inputterVars, fed, utf8Vars>>

Utf8Next ==
  \/ Round \/ Loaded \/ PassSequence \/ Malforms \/ Waits \/ ScanEnds \/ Output \/ Utf8Ends
=============================================================================
