---------------------------- MODULE MCUploadLink ----------------------------
(* What a device does to get its telemetry out, for TLC: the upload        *)
(* session (SdkUpload) and the serial port over which its chunks go        *)
(* (SerialLink).  They share nothing, so one of them runs in a behaviour,  *)
(* which adds their states instead of multiplying them.                    *)
EXTENDS SdkUpload, SerialLink

(* An empty payload, and one that holds what looks like a header. *)
MCPayloads == {<<>>, <<Magic, Version, <<2>>, <<0>>>>}
MCNoise == {Magic, <<4>>}

-----------------------------------------------------------------------------
VARIABLE part  \* which of the two runs

allVars == <<vars, linkVars, part>>

AllInit ==
  /\ part \in {"upload", "link"}
  /\ Init /\ LinkInit
  /\ part = "link" => async

AllNext ==
  /\ UNCHANGED part
  /\ \/ part = "upload" /\ Next /\ UNCHANGED linkVars
     \/ part = "link" /\ LinkNext /\ UNCHANGED vars

AllSpec == AllInit /\ [][AllNext]_allVars

(* The upload task runs for ever (upload_loop), a reset device boots again,*)
(* and the link is not for ever unable to carry the i-th chunk of a        *)
(* session: that last one is an assumption about the link.  No two of the  *)
(* steps under the WF can be taken in one state.                           *)
Uploads(A) == part = "upload" /\ A /\ Same /\ UNCHANGED <<linkVars, part>>

FairAllSpec ==
  /\ AllSpec
  /\ WF_vars(Uploads(Boot \/ BeginSession \/ Encode \/ EndSession
                     \/ ClearBuffers \/ ClearReason \/ ClearFault))
  /\ \A i \in 1 .. MaxMetrics + 4 : SF_vars(Uploads(next = i /\ SendOk))
=============================================================================
