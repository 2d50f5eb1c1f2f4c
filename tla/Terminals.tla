------------------------------ MODULE Terminals ------------------------------
(***************************************************************************)
(* The interactive terminals of the dashboard.                             *)
(*   dashboard/ui/terminals.ts          opening a pane, listing, refusals  *)
(*   dashboard/ui/tmux.ts               the tmux commands (tmux external)  *)
(*   dashboard/ui/routes/terminals.ts   the stream, input and kill routes  *)
(*   dashboard/ui/terminal-viewers.ts   one tmux client per open stream    *)
(*   dashboard/ui/app/components/Terminal/TerminalPane.tsx, app/lib/terminal-io.ts *)
(*                                                                         *)
(* tmux holds the state: a session exists under a name, carries options    *)
(* set one command after the other, and its shell may exit at any time.    *)
(* Requests open panes concurrently, each tmux command is a step of its    *)
(* own.  A browser pane is one viewer: the stream's request, the tmux      *)
(* client the server attaches, and the keys posted back.  Options are two  *)
(* groups: those a listing requires (up to ln-created-at), and the rest    *)
(* (ln-command, ln-kind).  Sizes, bytes and the words typed are left out.  *)
(***************************************************************************)
EXTENDS Naturals, Sequences, FiniteSets

CONSTANTS Ops,        \* requests that open a pane
          Items,      \* what they may name
          NoItem,     \* no item and no request
          NameOf(_, _), \* sessionName: the tmux name of an item and a kind
          Panes, Keys, \* browser panes; bound: keys typed in each
          MaxFailures, MaxExits, \* bounds: tmux commands that fail, shells that exit
          EarlyExit,  \* may a shell exit before its command is typed
          EarlyClose, \* may a browser leave before the server registered its close handler
          Detaching,  \* may a reader detach its client from the keyboard
          MaxOpens    \* bound: streams opened

VARIABLES
    sess,    \* by name: [live, opts, kind, item, by, typed]
    op,      \* by request: [at, item, kind, running]
    busy,    \* items whose run is in progress
    pane,    \* by pane: [status, on, stream, client, registered, token, left]
    key,     \* by pane: [next, queue, posts, got, cancelled]
    opens, failures, exits,
    wrote    \* history: requests whose session is typed while its run works, and not read-only
vars == <<sess, op, busy, pane, key, opens, failures, exits, wrote>>

Kinds == {"run", "coder", "attempt"}
Names == {NameOf(i, k) : i \in Items, k \in Kinds}
NoSession == [live |-> FALSE, opts |-> 0, kind |-> "run", item |-> NoItem, by |-> NoItem, typed |-> {}]
Idle == [at |-> "idle", item |-> NoItem, kind |-> "run", running |-> FALSE]
NoPane == [status |-> "closed", on |-> NoItem, stream |-> "none", client |-> "none", handler |-> FALSE, left |-> FALSE]
NoKeys == [next |-> 1, queue |-> <<>>, posts |-> {}, got |-> <<>>, waiting |-> FALSE]

NameOfOp(o) == NameOf(op[o].item, op[o].kind)
\* parseSessionLine: a session with its first options, listed as a run until its kind is set.
Listed == {n \in Names : sess[n].live /\ sess[n].opts >= 1}
ListedKind(n) == IF sess[n].opts = 2 /\ sess[n].kind # "run" THEN "session" ELSE "run"

TypeOK ==
    /\ \A n \in Names : /\ sess[n].opts \in 0..2 /\ sess[n].typed \subseteq Ops
                        /\ ~sess[n].live => sess[n] = NoSession
    /\ \A o \in Ops : op[o].at \in {"idle", "asked", "free", "clear", "ready", "made", "listed", "complete", "literal",
                                    "half", "done", "refused"}
    /\ \A p \in Panes : /\ pane[p].status \in {"closed", "connecting", "live", "lost", "ended"}
                        /\ pane[p].client \in {"none", "attached", "closing"}
                        /\ pane[p].status = "live" => key[p].next <= Keys + 1

-----------------------------------------------------------------------------
(* terminals.ts: opening a pane. *)

Move(o, at) == op' = [op EXCEPT ![o].at = at]
SameServer == UNCHANGED <<pane, key, opens>>

Ask(o) ==
    /\ op[o].at = "idle"
    /\ \E i \in Items, k \in Kinds : op' = [op EXCEPT ![o] = [at |-> "asked", item |-> i, kind |-> k, running |-> FALSE]]
    /\ UNCHANGED <<sess, busy, failures, exits, wrote>> /\ SameServer

\* has-session, the first refusal of a run and the last of an agent session.
HasSession(o) ==
    /\ op[o].at = (IF op[o].kind = "run" THEN "asked" ELSE "clear")
    /\ Move(o, IF sess[NameOfOp(o)].live THEN "refused" ELSE IF op[o].kind = "run" THEN "free" ELSE "ready")
    /\ UNCHANGED <<sess, busy, failures, exits, wrote>> /\ SameServer

\* findItem: a run in progress refuses a run and the coder's session; an attempt's opens read-only.
FindItem(o) ==
    /\ op[o].at = (IF op[o].kind = "run" THEN "free" ELSE "asked")
    /\ LET running == op[o].item \in busy
       IN op' = [op EXCEPT ![o].running = running,
                           ![o].at = IF running /\ (@ = "free" \/ op[o].kind = "coder") THEN "refused"
                                   ELSE IF @ = "free" THEN "ready" ELSE "clear"]
    /\ UNCHANGED <<sess, busy, failures, exits, wrote>> /\ SameServer

\* Slip: the name is taken over when it already exists.
NewSessionOver(o, name) == [NoSession EXCEPT !.live = TRUE, !.by = o, !.item = op[o].item, !.kind = op[o].kind,
                                             !.typed = sess[name].typed]
\* What tmux creates: nothing of it is set yet.
NewSession(o, name) == IF sess[name].live THEN sess[name]
                       ELSE [NoSession EXCEPT !.live = TRUE, !.by = o, !.item = op[o].item, !.kind = op[o].kind]
\* new-session is refused by tmux when the name is taken.
Create(o) ==
    /\ op[o].at = "ready"
    /\ LET n == NameOfOp(o)
           made == NewSession(o, n)
       IN /\ sess' = [sess EXCEPT ![n] = made]
          /\ Move(o, IF made.by = o THEN "made" ELSE "refused")
    /\ UNCHANGED <<busy, failures, exits, wrote>> /\ SameServer

\* A command on the name: it reaches whatever session has the name, and fails without one.
OnName(o, from, to, s) ==
    /\ op[o].at = from
    /\ \/ /\ sess[NameOfOp(o)].live
          /\ sess' = [sess EXCEPT ![NameOfOp(o)] = s] /\ Move(o, to) /\ UNCHANGED failures
       \/ /\ ~sess[NameOfOp(o)].live \/ failures < MaxFailures
          /\ failures' = IF sess[NameOfOp(o)].live THEN failures + 1 ELSE failures
          /\ Move(o, "half") /\ UNCHANGED sess
    /\ UNCHANGED <<busy, exits>> /\ SameServer

SetOptions(o) ==
    \/ OnName(o, "made", "listed", [sess[NameOfOp(o)] EXCEPT !.opts = 1]) /\ UNCHANGED wrote
    \/ OnName(o, "listed", "complete", [sess[NameOfOp(o)] EXCEPT !.opts = 2]) /\ UNCHANGED wrote
SendLiteral(o) == OnName(o, "complete", "literal", sess[NameOfOp(o)]) /\ UNCHANGED wrote
\* sendEnter: the command runs.  An agent told to be read-only cannot edit beside the run.
SendEnter(o) ==
    /\ OnName(o, "literal", "done", [sess[NameOfOp(o)] EXCEPT !.typed = @ \cup {o}])
    /\ wrote' = IF sess[NameOfOp(o)].live /\ op'[o].at = "done" /\ op[o].kind # "run"
                   /\ op[o].item \in busy /\ ~op[o].running
                THEN wrote \cup {o} ELSE wrote

\* Slip: a half-made session is left behind.
HalfLeft(n) == sess[n]
\* Slip: removed, and its options kept.
HalfTwice(n) == [sess[n] EXCEPT !.live = FALSE]
\* A half-made session is removed, by its name.
HalfRemoved(n) == NoSession
KillHalf(o) ==
    /\ op[o].at = "half"
    /\ sess' = [sess EXCEPT ![NameOfOp(o)] = HalfRemoved(NameOfOp(o))]
    /\ Move(o, "refused")
    /\ UNCHANGED <<busy, failures, exits, wrote>> /\ SameServer

\* The reader exits the shell, or kills the session from the dashboard or another shell.
ShellExits(n) ==
    /\ sess[n].live /\ exits < MaxExits /\ (EarlyExit \/ sess[n].typed # {})
    /\ sess' = [sess EXCEPT ![n] = NoSession] /\ exits' = exits + 1
    /\ UNCHANGED <<op, busy, failures, wrote>> /\ SameServer

\* The command of a run terminal starts the run; runs also start and end elsewhere.
RunStarts(i) == /\ i \notin busy /\ busy' = busy \cup {i}
                /\ UNCHANGED <<sess, op, failures, exits, wrote>> /\ SameServer
RunEnds(i) == /\ i \in busy /\ busy' = busy \ {i}
              /\ UNCHANGED <<sess, op, failures, exits, wrote>> /\ SameServer

-----------------------------------------------------------------------------
(* The stream of a viewer. *)

Set(p, r) == pane' = [pane EXCEPT ![p] = r]
SameTmux == UNCHANGED <<sess, op, busy, failures, exits, wrote>>

\* The effect of the pane: a new xterm, a new EventSource.
Connect(p) ==
    /\ pane[p].status \in {"closed", "lost"} /\ pane[p].stream = "none" /\ pane[p].client = "none" /\ opens < MaxOpens
    /\ opens' = opens + 1
    /\ \E n \in Listed : Set(p, [NoPane EXCEPT !.status = "connecting", !.on = n, !.stream = "asked"])
    /\ key' = [key EXCEPT ![p] = NoKeys]
    /\ SameTmux

\* findTerminal answered: the client is attached, hello is sent, then the close handler is set.
OpenStream(p) ==
    /\ pane[p].stream = "asked"
    /\ IF pane[p].on \in Listed
       THEN Set(p, [pane[p] EXCEPT !.stream = "open", !.client = "attached", !.handler = ~pane[p].left])
       ELSE Set(p, [pane[p] EXCEPT !.stream = "none"])
    /\ UNCHANGED <<key, opens>> /\ SameTmux

Hello(p) ==
    /\ pane[p].status = "connecting" /\ pane[p].stream \in {"open", "ended"}
    /\ Set(p, [pane[p] EXCEPT !.status = "live"])
    /\ UNCHANGED <<key, opens>> /\ SameTmux

\* The tmux client ends: its session is gone, it was detached or closed.  finish sends exit and closes.
ClientExits(p) ==
    /\ \/ pane[p].client = "closing"
       \/ pane[p].client = "attached" /\ (~sess[pane[p].on].live \/ (Detaching /\ pane[p].status = "live"))
    /\ Set(p, [pane[p] EXCEPT !.client = "none", !.handler = FALSE,
                              !.stream = IF pane[p].stream = "open" THEN "ended" ELSE @])
    /\ UNCHANGED <<key, opens>> /\ SameTmux

\* exit is written before the stream ends, and the first of the two is what the pane keeps.
EndOfStream(p) == IF pane[p].stream = "ended" THEN "ended" ELSE "lost"
\* The exit event, or the error of a stream that was refused or cut.
StreamOver(p) ==
    /\ pane[p].status = "live" \/ (pane[p].status = "connecting" /\ pane[p].stream = "none")
    /\ pane[p].stream \in {"ended", "none"}
    /\ Set(p, [pane[p] EXCEPT !.status = EndOfStream(p), !.stream = "none"])
    /\ UNCHANGED <<key, opens>> /\ SameTmux

\* Slip: a connection that breaks is taken for the end of the session.
CutEnded(p) ==
    /\ pane[p].status \in {"live", "connecting"} /\ pane[p].stream \in {"asked", "open"} /\ (EarlyClose \/ pane[p].stream = "open")
    /\ Set(p, [pane[p] EXCEPT !.status = "ended", !.left = TRUE])
    /\ UNCHANGED <<key, opens>> /\ SameTmux
\* The connection breaks: the pane loses it at once, the server learns it with the close of the request.
Cut(p) ==
    /\ pane[p].status \in {"live", "connecting"} /\ pane[p].stream \in {"asked", "open"} /\ (EarlyClose \/ pane[p].stream = "open")
    /\ Set(p, [pane[p] EXCEPT !.status = "lost", !.left = TRUE])
    /\ UNCHANGED <<key, opens>> /\ SameTmux
\* The reader leaves the page: the effect's cleanup.
Leave(p) ==
    /\ pane[p].status # "closed" /\ (pane[p].stream # "asked" \/ EarlyClose)
    /\ Set(p, [pane[p] EXCEPT !.status = "closed", !.left = TRUE,
                              !.stream = IF @ = "ended" THEN "none" ELSE @])
    /\ UNCHANGED <<key, opens>> /\ SameTmux

\* Slip: the close of the request does not reach the viewer.
CloseViewerNot(p) == pane[p].client
\* viewer.close: this client is detached, nothing else.
CloseViewer(p) == IF pane[p].client = "attached" THEN "closing" ELSE pane[p].client
RequestCloses(p) ==
    /\ pane[p].left /\ pane[p].stream = "open" /\ pane[p].handler
    /\ Set(p, [pane[p] EXCEPT !.stream = "none", !.handler = FALSE, !.client = CloseViewer(p)])
    /\ UNCHANGED <<key, opens>> /\ SameTmux
\* The client is gone and the request closed: nothing of the stream is left.
Forgotten(p) ==
    /\ pane[p].left /\ pane[p].stream = "ended"
    /\ Set(p, [pane[p] EXCEPT !.stream = "none"])
    /\ UNCHANGED <<key, opens>> /\ SameTmux

-----------------------------------------------------------------------------
(* terminal-io.ts: the keys. *)

SetKeys(p, r) == key' = [key EXCEPT ![p] = r]
Push(p) ==
    /\ pane[p].status = "live" /\ key[p].next <= Keys
    /\ SetKeys(p, [key[p] EXCEPT !.queue = Append(@, key[p].next), !.next = @ + 1])
    /\ UNCHANGED <<pane, opens>> /\ SameTmux

\* Slip: a request is sent while another is in flight.
MayFlushAlways(p) == key[p].queue # <<>>
\* One request in flight: what is typed meanwhile waits.
MayFlush(p) == key[p].queue # <<>> /\ ~key[p].waiting
Flush(p) ==
    /\ pane[p].status = "live" /\ MayFlush(p)
    /\ SetKeys(p, [key[p] EXCEPT !.posts = @ \cup {key[p].queue}, !.queue = <<>>, !.waiting = TRUE])
    /\ UNCHANGED <<pane, opens>> /\ SameTmux
\* The server writes to the client the token names, or answers 404; the pane is then lost.
Deliver(p) ==
    /\ \E d \in key[p].posts :
         LET known == pane[p].client = "attached"
         IN /\ SetKeys(p, [key[p] EXCEPT !.posts = @ \ {d}, !.waiting = FALSE, !.got = IF known THEN @ \o d ELSE @])
            /\ IF known \/ pane[p].status # "live" THEN UNCHANGED pane
               ELSE Set(p, [pane[p] EXCEPT !.status = "lost", !.left = TRUE,
                                           !.stream = IF @ = "ended" THEN "none" ELSE @])
    /\ UNCHANGED opens /\ SameTmux

Init ==
    /\ sess = [n \in Names |-> NoSession] /\ op = [o \in Ops |-> Idle] /\ busy \in SUBSET Items
    /\ pane = [p \in Panes |-> NoPane] /\ key = [p \in Panes |-> NoKeys]
    /\ opens = 0 /\ failures = 0 /\ exits = 0 /\ wrote = {}

\* Slip: a command that failed is not answered.
OpeningStuck(o) == HasSession(o) \/ FindItem(o) \/ Create(o) \/ SetOptions(o) \/ SendLiteral(o) \/ SendEnter(o)
Opening(o) == \/ HasSession(o) \/ FindItem(o) \/ Create(o) \/ SetOptions(o) \/ SendLiteral(o) \/ SendEnter(o) \/ KillHalf(o)
\* Slip: exit is not sent.
StreamingNoExit(p) == OpenStream(p) \/ Hello(p) \/ RequestCloses(p) \/ Forgotten(p)
Streaming(p) == OpenStream(p) \/ Hello(p) \/ StreamOver(p) \/ RequestCloses(p) \/ Forgotten(p)
Next ==
    \/ \E o \in Ops : Ask(o) \/ Opening(o)
    \/ \E n \in Names : ShellExits(n)
    \/ \E i \in Items : RunStarts(i) \/ RunEnds(i)
    \/ \E p \in Panes : \/ Connect(p) \/ Streaming(p) \/ ClientExits(p) \/ Cut(p) \/ Leave(p)
                        \/ Push(p) \/ Flush(p) \/ Deliver(p)

Spec == Init /\ [][Next]_vars
ClientEnds(p) == ClientExits(p) /\ (pane[p].client = "closing" \/ ~sess[pane[p].on].live)
\* The event loop runs on, a closed client ends or is killed after its grace, and tmux answers.
FairSpec == /\ Spec
            /\ \A p \in Panes : WF_vars(Streaming(p)) /\ WF_vars(ClientEnds(p)) /\ WF_vars(Flush(p)) /\ WF_vars(Deliver(p))
            /\ \A o \in Ops : WF_vars(Opening(o))

-----------------------------------------------------------------------------
(* Properties. *)

\* Only the request that created a session types into it, and nothing answers "done" for a session
\* another one made.
OneCommand == \A n \in Names : sess[n].live => sess[n].typed \subseteq {sess[n].by}

\* A request that was refused leaves nothing of its own behind for a later one to trip on.
NoHalfSession == \A n \in Names : sess[n].live => op[sess[n].by].at \notin {"refused", "idle"}

\* The keys of a viewer reach its terminal in the order they were typed, none twice, however the
\* posts race.
InputInOrder == \A p \in Panes : \A a, b \in 1..Len(key[p].got) : a < b => key[p].got[a] < key[p].got[b]

\* A pane tells "ended" only of a client that is gone, and keeps no viewer.
EndedHasNoClient == \A p \in Panes : pane[p].status = "ended" => pane[p].client = "none" /\ pane[p].stream = "none"

\* The end of a session is told as its end to every viewer that watches it.
WatchesDead(p) == pane[p].status = "live" /\ pane[p].client = "attached" /\ ~sess[pane[p].on].live

\* A terminal listed by the dashboard always carries its metadata.
ListedIsComplete == \A n \in Listed : ListedKind(n) = (IF sess[n].kind = "run" THEN "run" ELSE "session")

\* The session of an agent opened beside a run in progress is read-only.
ReadOnlyWhileRunning == wrote = {}

\* A pane that tells its session ended is right.
EndedMeansGone == \A p \in Panes : pane[p].status = "ended" => ~sess[pane[p].on].live \/ exits > 0

\* The terminal a refused request is sent to is one of its own item.
AlreadyOpenIsMine == \A o \in Ops : op[o].at = "clear" /\ sess[NameOfOp(o)].live => sess[NameOfOp(o)].item = op[o].item
=============================================================================
