--------------------------------- MODULE Ssh ---------------------------------
(***************************************************************************)
(* ltf.ssh: a session, its channels and its SFTP channels (modules/ssh and *)
(* lib/ltf/ssh), each a Lua object around an object of libssh2.            *)
(*                                                                         *)
(* Closing a session closes its channels, and freeing it frees whatever    *)
(* libssh2 still keeps for it.  The Lua objects go when the collector      *)
(* takes them, so each must know whether its libssh2 object is still       *)
(* there; "ub" says that one did not.                                      *)
(***************************************************************************)
EXTENDS Naturals, FiniteSets, SequencesExt

CONSTANTS
  Channels, Sftps,  \* objects that tests make at most
  MaxCalls          \* bound on the calls of the tests

\* What happens that the documented use has not.
Faults == {"server",     \* a request to the server fails
           "stuck",      \* a transfer fails while its remote file is open
           "leak",       \* a channel is dropped and not closed
           "early",      \* a session is closed before its SFTP channels
           "disconnect"} \* a session is disconnected before its channels are closed

\* What the constants must be; the module that gives them values assumes it.
ConstantsOK == MaxCalls \in Nat /\ Channels \cap Sftps = {}

VARIABLES
  session,   \* l_ssh_session_t
  active,    \* its active_channels
  channel,   \* l_ssh_channel_t: whether its pointers are set
  sftp,      \* l_sftp_session_t
  live,      \* the channels and SFTP channels that libssh2 has
  link,      \* the connection
  faults,    \* history: what happened beyond the documented use
  ub,
  calls

vars == <<session, active, channel, sftp, live, link, faults, ub, calls>>

Session == [open : BOOLEAN, sock : BOOLEAN, list : BOOLEAN, collected : BOOLEAN]
State   == {"none", "open", "closed", "collected"}
Sftp    == [state : State, file : BOOLEAN, told : BOOLEAN]

\* low.session_init_userpass.
Init ==
  /\ session = [open |-> TRUE, sock |-> FALSE, list |-> TRUE, collected |-> FALSE]
  /\ active = << >>
  /\ channel = [c \in Channels |-> "none"]
  /\ sftp = [f \in Sftps |-> [state |-> "none", file |-> FALSE, told |-> FALSE]]
  /\ live = {}
  /\ link = "new"
  /\ faults = {}
  /\ ub = FALSE
  /\ calls = 0

-----------------------------------------------------------------------------
Called ==
  /\ ~ub
  /\ calls < MaxCalls
  /\ calls' = calls + 1

\* What happens that the documented use has not.
Happens(new) == faults' = faults \cup new
Fault(name, when) == {f \in {name} : when}

Undefined == ub' = TRUE /\ UNCHANGED <<session, active, channel, sftp, live, link>>

\* connect; a refused handshake or login leaves the socket where it is.
Connect(result) ==
  /\ Called
  /\ session.open /\ ~session.sock /\ ~session.collected
  /\ session' = [session EXCEPT !.sock = TRUE]
  /\ \/ result = "ok" /\ link = "new" /\ link' = "up"
     \/ result = "rejected" /\ UNCHANGED link
  /\ Happens(Fault("server", result = "rejected"))
  /\ UNCHANGED <<active, channel, sftp, live, ub>>

Open == {c \in Channels : channel[c] = "open"}

\* disconnect.
Disconnect ==
  /\ Called
  /\ session.open /\ session.sock /\ ~session.collected
  /\ Happens(Fault("disconnect", Open # {}))
  /\ session' = [session EXCEPT !.sock = FALSE]
  /\ link' = "down"
  /\ UNCHANGED <<active, channel, sftp, live, ub>>

\* libssh2 refuses to close a channel, or a session to be disconnected: the
\* server's fault as long as there is a connection.
Fails == Fault("server", link # "down")

Closed(cs) == [c \in Channels |-> IF c \in cs THEN "closed" ELSE channel[c]]

\* The loop over the channels of l_module_ssh_session_close comes to its end ...
CloseAll ==
  /\ \A c \in Range(active) : channel[c] = "open"
  /\ active' = << >>
  /\ channel' = Closed(Range(active))

\* ... or a channel fails: the earlier ones are closed and still in the list.
CloseSome(gc, early) ==
  /\ \E k \in 0 .. Len(active) - 1 :
       LET done == {active[i] : i \in 1 .. k} IN
       /\ done \subseteq Open
       /\ \/ channel[active[k + 1]] = "open" /\ Happens(early \cup Fails)
          \/ channel[active[k + 1]] = "closed" /\ Happens(early)
       /\ channel' = Closed(done)
       /\ live' = live \ done
  /\ session' = [session EXCEPT !.collected = gc]
  /\ UNCHANGED <<active, sftp, link, ub>>

\* It follows a list that was freed, or a channel object that was collected.
CloseStale ==
  \/ ~session.list
  \/ \E k \in DOMAIN active :
       /\ channel[active[k]] = "collected"
       /\ \A i \in 1 .. k - 1 : channel[active[i]] = "open"

\* After the channels the list is freed, a connected session is disconnected,
\* and libssh2_session_free frees all that libssh2 has left, SFTP channels
\* included, for which it asks the server.
Release(gc, early) ==
  /\ CloseAll
  /\ \/ /\ session.sock /\ Happens(early \cup Fails)
        /\ session' = [session EXCEPT !.list = FALSE, !.collected = gc]
        /\ UNCHANGED link
     \/ /\ live # Range(active) /\ Happens(early \cup {"server"})
        /\ session' = [session EXCEPT !.list = FALSE, !.sock = FALSE, !.collected = gc]
        /\ link' = "down"
     \/ /\ session' = [session EXCEPT !.list = FALSE, !.sock = FALSE, !.open = FALSE,
                                      !.collected = gc]
        /\ link' = "down"
        /\ Happens(early)
  /\ live' = IF session'.open THEN live \ Range(active) ELSE {}
  /\ UNCHANGED <<sftp, ub>>

EndSession(gc, early) ==
  \/ /\ ~session.open
     /\ session' = [session EXCEPT !.collected = gc]
     /\ UNCHANGED <<active, channel, sftp, live, link, faults, ub>>
  \/ session.open /\ CloseStale /\ Undefined /\ Happens(early)
  \/ session.open /\ ~CloseStale /\ (CloseSome(gc, early) \/ Release(gc, early))

CloseSession ==
  /\ Called
  /\ ~session.collected
  /\ EndSession(FALSE, Fault("early",
       \E f \in Sftps : sftp[f].state = "open" /\ ~sftp[f].told))

\* The object of an SFTP channel keeps its session; that of a channel does not.
CollectSession ==
  /\ Called
  /\ ~session.collected
  /\ \A f \in Sftps : sftp[f].state \in {"none", "collected"}
  /\ EndSession(TRUE, {})

-----------------------------------------------------------------------------
\* channel_init, for exec and shell channels.
OpenChannel(c) ==
  /\ Called
  /\ channel[c] = "none"
  /\ session.open /\ ~session.collected
  /\ link = "up"
  /\ IF session.list
     THEN /\ channel' = [channel EXCEPT ![c] = "open"]
          /\ live' = live \cup {c}
          /\ active' = Append(active, c)
          /\ UNCHANGED <<session, sftp, link, ub>>
     ELSE Undefined
  /\ UNCHANGED faults

\* exec, shell, read, write and the other requests on a channel; what they do
\* is between libssh2 and the server.
UseChannel(c) ==
  /\ Called
  /\ channel[c] = "open"
  /\ IF c \in live THEN UNCHANGED <<session, active, channel, sftp, live, link, ub>>
                  ELSE Undefined
  /\ UNCHANGED faults

\* Mutant: the channel stays in the list of its session.
UnlistNot(c) == active

\* The search for the channel in the list.
Unlist(c) == RemoveFirst(active, c)

\* close of a channel; a closed one raises.
CloseChannel(c) ==
  /\ Called
  /\ channel[c] = "open"
  /\ \/ /\ c \in live /\ ~session.collected /\ session.list
        /\ channel' = [channel EXCEPT ![c] = "closed"]
        /\ live' = live \ {c}
        /\ active' = Unlist(c)
        /\ UNCHANGED <<session, sftp, link, faults, ub>>
     \/ /\ c \in live /\ Happens(Fails)
        /\ UNCHANGED <<session, active, channel, sftp, live, link, ub>>
     \/ /\ c \notin live \/ session.collected \/ ~session.list
        /\ Undefined /\ UNCHANGED faults

LastListed(c) == active # << >> /\ c = Last(active)

\* l_channel_ssh_gc.  Its loop goes on to the size the list had before, so it
\* is only sound for the last channel, which is the first to go at the end of
\* the run.
CollectChannel(c) ==
  /\ Called
  /\ channel[c] \in {"open", "closed"}
  /\ Happens(Fault("leak", channel[c] = "open" /\ ~LastListed(c)))
  /\ IF channel[c] = "closed"
     THEN /\ channel' = [channel EXCEPT ![c] = "collected"]
          /\ UNCHANGED <<session, active, sftp, live, link, ub>>
     ELSE IF c \in live /\ ~session.collected /\ session.list /\ LastListed(c)
     THEN /\ channel' = [channel EXCEPT ![c] = "collected"]
          /\ live' = live \ {c}
          /\ active' = Unlist(c)
          /\ UNCHANGED <<session, sftp, link, ub>>
     ELSE Undefined

-----------------------------------------------------------------------------
\* sftp_init.
OpenSftp(f) ==
  /\ Called
  /\ sftp[f].state = "none"
  /\ session.open /\ ~session.collected
  /\ link = "up"
  /\ sftp' = [sftp EXCEPT ![f].state = "open"]
  /\ live' = live \cup {f}
  /\ UNCHANGED <<session, active, channel, link, ub>>
  /\ UNCHANGED faults

\* low.open, then low.read or low.write piece by piece, then low.close.  A read
\* that fails, or a piece with a zero byte, raises with the remote file open; a
\* refused write closes it first.
Pieces(f, stuck) == [sftp EXCEPT ![f].file = stuck]

\* send or receive; one is refused while the file of an earlier one is open.
Transfer(f, stuck) ==
  /\ Called
  /\ sftp[f].state = "open" /\ ~sftp[f].file
  /\ Happens(Fault("stuck", stuck))
  /\ IF f \in live
     THEN /\ sftp' = Pieces(f, stuck)
          /\ UNCHANGED <<session, active, channel, live, link, ub>>
     ELSE Undefined

\* close, which is low.shutdown: it does nothing while a remote file is open.
CloseSftp(f) ==
  /\ Called
  /\ sftp[f].state = "open"
  /\ IF sftp[f].file
     THEN /\ sftp' = [sftp EXCEPT ![f].told = TRUE]
          /\ UNCHANGED <<session, active, channel, live, link, ub>>
     ELSE IF f \in live
     THEN /\ sftp' = [sftp EXCEPT ![f].state = "closed", ![f].told = TRUE]
          /\ live' = live \ {f}
          /\ UNCHANGED <<session, active, channel, link, ub>>
     ELSE Undefined
  /\ UNCHANGED faults

\* l_sftp_session_gc.
CollectSftp(f) ==
  /\ Called
  /\ sftp[f].state \in {"open", "closed"}
  /\ IF sftp[f].state = "closed" \/ f \in live
     THEN /\ sftp' = [sftp EXCEPT ![f].state = "collected"]
          /\ live' = live \ {f}
          /\ UNCHANGED <<session, active, channel, link, ub>>
     ELSE Undefined
  /\ UNCHANGED faults

-----------------------------------------------------------------------------
Terminated == (ub \/ calls = MaxCalls \/ session.collected) /\ UNCHANGED vars

Next ==
  \/ \E result \in {"ok", "rejected"} : Connect(result)
  \/ Disconnect \/ CloseSession \/ CollectSession
  \/ \E c \in Channels :
       OpenChannel(c) \/ UseChannel(c) \/ CloseChannel(c) \/ CollectChannel(c)
  \/ \E f \in Sftps :
       \/ OpenSftp(f) \/ CloseSftp(f) \/ CollectSftp(f)
       \/ \E stuck \in BOOLEAN : Transfer(f, stuck)
  \/ Terminated

Spec == Init /\ [][Next]_vars

-----------------------------------------------------------------------------
\* Every variable stays in its type, and an object that is still open points
\* to whatever libssh2 has.
TypeOK ==
  /\ session \in Session
  /\ active \in Seq(Channels)
  /\ channel \in [Channels -> State]
  /\ sftp \in [Sftps -> Sftp]
  /\ live \subseteq Channels \cup Sftps
  /\ link \in {"new", "up", "down"}
  /\ faults \subseteq Faults
  /\ ub \in BOOLEAN
  /\ calls \in 0 .. MaxCalls
  /\ live \subseteq Open \cup {f \in Sftps : sftp[f].state = "open"}

\* The pointers of a channel are set exactly as long as libssh2 has the channel
\* and the session lists it, once.
ChannelsTracked ==
  \A c \in Channels :
    channel[c] = "open" =>
      /\ c \in live
      /\ session.open /\ session.list
      /\ \E i \in DOMAIN active : {j \in DOMAIN active : active[j] = c} = {i}

\* In the documented order of calls, with a server that answers, no pointer is
\* followed to an object that libssh2 or the collector has taken, whenever the
\* collector runs.  Each of the faults alone can make it happen; until it does
\* every session knows its channels, whatever fails and whatever is collected.
SessionsSafe ==
  /\ ub => faults # {}
  /\ ~ub => ChannelsTracked

=============================================================================
