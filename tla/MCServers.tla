------------------------------ MODULE MCServers ------------------------------
(***************************************************************************)
(* The console server (Console) and the file system on the disk (SataFs),  *)
(* which share no state: each is explored on its own.                      *)
(***************************************************************************)
EXTENDS Console, SataFs

VARIABLE part

MCPath == {"/", "/a", "/b", "/a/x"}
MCUp == [p \in MCPath |-> CASE p = "/" -> None [] p = "/a/x" -> "/a" [] OTHER -> "/"]
MCPattern == <<1, 2, 3>>

ServersInit == part \in {"console", "disk"} /\ ConsoleInit /\ Init

\* A server that has crashed does nothing more.
Crashed == fault /\ UNCHANGED vars

ServersNext ==
  \/ part = "console" /\ ConsoleNext /\ UNCHANGED <<part, vars>>
  \/ part = "disk" /\ (Next \/ Crashed) /\ UNCHANGED <<part, consoleVars>>

ServersSpec == ServersInit /\ [][ServersNext]_<<part, consoleVars, vars>>
=============================================================================
