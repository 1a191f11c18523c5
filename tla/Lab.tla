-------------------------------- MODULE Lab --------------------------------
(***************************************************************************)
(* The learning lab: admission and benchmarks, one inference from the      *)
(* provider to the client, the framing of what the provider sends and the  *)
(* store of records.  LabGateway counts inferences that end in any way,    *)
(* ChatStream looks into one of them, UpstreamFraming into its events and  *)
(* RecordStore into its save; no state is shared, so a behaviour follows   *)
(* one of them.                                                            *)
(***************************************************************************)
EXTENDS LabGateway, ChatStream, UpstreamFraming, RecordStore

VARIABLE part   \* the one that runs

labVars == <<part, vars, chatVars, framingVars, storeVars>>

LabInit ==
    /\ Init /\ StoreInit
    /\ \/ /\ part \in {"gateway", "store"}
          /\ Ask("run", FALSE) /\ Arriving(<<>>, <<"LF">>, 0, "lab")
       \/ part = "chat" /\ ChatInit /\ Arriving(<<>>, <<"LF">>, 0, "lab")
       \/ part = "framing" /\ FramingInit /\ Ask("run", FALSE)

LabNext ==
    /\ UNCHANGED part
    /\ \/ part = "gateway" /\ Next /\ UNCHANGED <<chatVars, framingVars, storeVars>>
       \/ part = "chat" /\ ChatNext /\ UNCHANGED <<vars, framingVars, storeVars>>
       \/ part = "framing" /\ FramingNext /\ UNCHANGED <<vars, chatVars, storeVars>>
       \/ part = "store" /\ StoreNext /\ UNCHANGED <<vars, chatVars, framingVars>>

\* The loop of the gateway runs what can run; that a client reads is not assumed.
LabSpec ==
    /\ LabInit /\ [][LabNext]_labVars
    /\ \A b \in Benches :
          WF_labVars(part = "gateway" /\ Progress(b)
                     /\ UNCHANGED <<part, chatVars, framingVars, storeVars>>)
=============================================================================
