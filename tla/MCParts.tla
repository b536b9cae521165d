------------------------------ MODULE MCParts ------------------------------
(***************************************************************************)
(* Small instances of six components that share no state with each other:  *)
(* the address pool, the accept loop's bearing with errors, the locks of a *)
(* run, one direction of a connection, the web client and the settings.  A *)
(* behaviour is one of a single part, chosen at the start, with the others *)
(* left as they start: what holds of all of them is what holds of each.    *)
(***************************************************************************)
EXTENDS IpPool, AcceptErrors, LockOrder, Splice, ApiStream, Settings

VARIABLE part

partsVars == <<part, ipVars, acceptVars, lockVars, spliceVars, streamVars,
               settingsVars>>

Init ==
  /\ part \in {"pool", "accept", "locks", "splice", "stream", "settings"}
  /\ IpInit /\ AcceptInit /\ LockInit /\ SpliceInit /\ StreamInit /\ SettingsInit
  \* A part that does not move has one way to start.
  /\ part # "pool" => segments = <<>>
  /\ part # "stream" => ~running

\* A step of one part alone.
OthersRest(p) ==
  /\ UNCHANGED part
  /\ p = "pool" \/ UNCHANGED ipVars
  /\ p = "accept" \/ UNCHANGED acceptVars
  /\ p = "locks" \/ UNCHANGED lockVars
  /\ p = "splice" \/ UNCHANGED spliceVars
  /\ p = "stream" \/ UNCHANGED streamVars
  /\ p = "settings" \/ UNCHANGED settingsVars

Next ==
  \/ part = "pool" /\ IpNext /\ OthersRest("pool")
  \/ part = "accept" /\ AcceptNext /\ OthersRest("accept")
  \/ part = "locks" /\ LockNext /\ OthersRest("locks")
  \/ part = "splice" /\ SpliceNext /\ OthersRest("splice")
  \/ part = "stream" /\ StreamNext /\ OthersRest("stream")
  \/ part = "settings" /\ SettingsNext /\ OthersRest("settings")

\* pop() and the splicing thread run on; the tasks, callbacks and timers of the
\* web client and the server come to run.  Of the attempts to stream one is open
\* at a time (OneConnection), so what concerns any of them is one scheduling.
Fairness ==
  /\ WF_partsVars(part = "pool" /\ PopRuns /\ OthersRest("pool"))
  /\ WF_partsVars(part = "splice" /\ Transfers /\ OthersRest("splice"))
  /\ WF_partsVars(part = "stream" /\ TimerFires /\ OthersRest("stream"))
  /\ WF_partsVars(part = "stream" /\ RestartResumes /\ OthersRest("stream"))
  /\ \A p \in Panels :
       WF_partsVars(part = "stream" /\ (Handle(p) \/ Answered(p)) /\ OthersRest("stream"))
  /\ WF_partsVars(part = "stream" /\ (\E g \in Generations : SendAnswered(g)) /\ OthersRest("stream"))
  /\ WF_partsVars(part = "stream" /\ (\E g \in Generations : Push(g)) /\ OthersRest("stream"))
  /\ WF_partsVars(part = "stream" /\ (\E l \in transit : Line(l)) /\ OthersRest("stream"))

Spec == Init /\ [][Next]_partsVars /\ Fairness

\* Every variable of every part keeps its type.
PartsTypeOK == IpTypeOK /\ AcceptTypeOK /\ SpliceTypeOK /\ StreamTypeOK
               /\ SettingsTypeOK

\* The web client, where it runs, shows the state of the service in the end
\* (ShownCatchesUp, api_service.dart:130-135, 150-159).
ClientCatchesUp == part = "stream" => ShownCatchesUp

----------------------------------------------------------------------------
(* The sources of the address pool *)

Ip(a) == [kind |-> "ip", val |-> a]
Cidr(a, len, n) == [kind |-> "cidr", val |-> a, len |-> len, count |-> n]

\* Prefixes of every length of a 4-bit address space, with a count of none,
\* few, the number of addresses and one more.
OnePrefix ==
  UNION {{<<Cidr(a, len, n)>> : a \in {0, 11}, n \in {0, 1, 3} \cup {2 ^ (4 - len) + k : k \in -1 .. 1}} :
           len \in 0 .. 3}

\* Segments of different lengths, a prefix of a single address among them.
SeveralSources ==
  {<<>>, <<Cidr(8, 1, 1)>>, <<Ip(14), Ip(15)>>, <<Ip(15), Cidr(0, 2, 1)>>,
   <<Cidr(0, 3, 1), Cidr(2, 3, 2)>>, <<Cidr(0, 2, 3), Ip(14), Cidr(15, 4, 4)>>,
   <<Cidr(0, 3, 2), Cidr(2, 3, 2), Cidr(4, 3, 1)>>}

Sources == OnePrefix \cup SeveralSources

\* The numbers given for settings.
SomeNumbers == {-1, 0, 2, 5}
=============================================================================
