------------------------------ MODULE Fetching ------------------------------
(***************************************************************************)
(* What a connector's fetch_file promises its caller (collectors/base.py,  *)
(* collectors/agent.py): the destination is filled in order, and then the  *)
(* call either returns and the file stays as it is, or raises and there is *)
(* none.  Only a fetch that an agent from before 0.5.3 answered in one     *)
(* message may raise over that answer and leave something behind.          *)
(* AgentRegistry implements it over connections that come and go.          *)
(***************************************************************************)
EXTENDS Naturals, Sequences

CONSTANT Requests

VARIABLES
    call,   \* each call of fetch_file: "idle", "running", "returned", "raised", or "refused":
            \* raised over an answer that held the whole content
    file    \* its destination, as chunk numbers while and after it is filled

fetchVars == <<call, file>>

NoFile == [file |-> "absent", content |-> <<>>]

FetchInit ==
    /\ call = [r \in Requests |-> "idle"]
    /\ file = [r \in Requests |-> NoFile]

Start(r) ==
    /\ call[r] = "idle"
    /\ call' = [call EXCEPT ![r] = "running"]
    /\ file' = [file EXCEPT ![r].file = "open"]

Fill(r) ==
    /\ call[r] = "running" /\ file[r].file = "open"
    /\ file' = [file EXCEPT ![r].content = Append(@, Len(@))]
    /\ UNCHANGED call

\* The chunks stay, or the file is given as a whole.
Succeed(r) ==
    /\ call[r] = "running"
    /\ call' = [call EXCEPT ![r] = "returned"]
    /\ \/ file' = [file EXCEPT ![r].file = "closed"]
       \/ file' = [file EXCEPT ![r] = [file |-> "whole", content |-> <<>>]]

Raise(r) ==
    /\ call[r] = "running"
    /\ call' = [call EXCEPT ![r] = "raised"]
    /\ file' = [file EXCEPT ![r] = NoFile]

\* The content is too large (no file), cannot be decoded (the file stays as it was filled),
\* or cannot be written (some of it is there).
Refuse(r) ==
    /\ call[r] = "running"
    /\ call' = [call EXCEPT ![r] = "refused"]
    /\ \/ file' = [file EXCEPT ![r] = NoFile]
       \/ file' = [file EXCEPT ![r].file = "closed"]
       \/ file' = [file EXCEPT ![r] = [file |-> "partial", content |-> <<>>]]

FetchNext ==
    \E r \in Requests : Start(r) \/ Fill(r) \/ Succeed(r) \/ Raise(r) \/ Refuse(r)

FetchSpec == FetchInit /\ [][FetchNext]_fetchVars
=============================================================================
