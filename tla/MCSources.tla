------------------------------ MODULE MCSources ------------------------------
(***************************************************************************)
(* What receipts, source IDs and lifecycle statuses must guarantee, checked *)
(* by TLC.                                                                  *)
(***************************************************************************)
EXTENDS SourceReceipts, TLC

Completed == {i \in Recorded(receipts) : ValidReceipt(receipts[i], receipts[i].raw)}

(* mergeCloudSuccess: a receipt names an input that a published page of its *)
(* raw file was really made from, whatever was uploaded or annotated while  *)
(* the run was under way and wherever it stopped.                           *)
ReceiptsTrue ==
    \A i \in Completed :
        <<receipts[i].raw, <<receipts[i].text, receipts[i].body>>>> \in ingested

(* reconcileSourceIDMap: once a run has recorded a receipt for a source,    *)
(* every later generation with a page for that raw file gives it the same   *)
(* ID, so that links and annotations keep working, unless the file was      *)
(* removed and uploaded again.                                              *)
ReceiptedIdsKept ==
    [][wiki'.ids # wiki.ids =>
          \A i \in Recorded(receipts) : \A j \in Ids :
              wiki'.ids[j] = receipts[i].raw => j = i \/ receipts[i].raw \in back]_sourceVars

(* normalizeCloudReceipts refuses an artifact in which one raw file has two *)
(* source IDs: were one ever written, no later run could record a receipt.  *)
(* Unless a removed raw file is uploaded again, none is.                    *)
ReceiptsAccepted == back = {} => normalizeCloudReceipts(receipts)

(* The quota gate (pendingWorkForProject): when no work is counted, every   *)
(* raw file has a page, and one with a receipt was at some time ingested    *)
(* with exactly its present text and annotation, so refusing a run leaves   *)
(* nothing behind.                                                          *)
NoWorkMeansIngested ==
    PendingWork = 0 =>
        \A r \in Raws : raw[r] # None =>
            \E i \in Ids :
                /\ wiki.ids[i] = r
                /\ \/ ~ValidReceipt(receipts[i], r)
                   \/ <<r, Fingerprint(raw[r], Digest(ann[i]))>> \in ingested

(* PutAnnotation: a write replaces only the version its author had fetched  *)
(* or written, so two sessions never silently drop each other's text.       *)
AnnotationsNotLost ==
    [][ann' # ann => \A i \in Ids : ann'[i] # ann[i] =>
          \E c \in Clients : /\ edit[c] = [id |-> i, gen |-> ann[i].gen]
                            /\ edit'[c].gen = ann'[i].gen]_sourceVars
==============================================================================
