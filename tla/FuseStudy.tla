----------------------------- MODULE FuseStudy -----------------------------
(***************************************************************************)
(* The network file system of this repository: the FUSE client             *)
(* (source/fuse_study.c), the server (server/server.c) and the packets      *)
(* between them (custom_include/bound.c).                                   *)
(*                                                                          *)
(* A client process has one connection, which all its request threads use   *)
(* without a lock.  The server's main thread waits with epoll, reads opcode *)
(* and path of a request, takes a socket out of the epoll set and starts a  *)
(* handler thread, which answers and puts the socket back.  A packet is its *)
(* meaning; a message longer than a packet is one packet here, except the   *)
(* contents of a file.  Packets carry no type: who reads one that was meant *)
(* for something else is "lost", and the model does not follow it.  Sockets *)
(* have one descriptor for good: the number of a closed one is not given    *)
(* away again.                                                              *)
(***************************************************************************)
EXTENDS Naturals, Sequences, FiniteSets, SequencesExt

CONSTANTS StudyClients,   \* client processes
          StudyThreads,   \* request threads of each
          StudyRequests,  \* requests each client gets from its kernel
          StudyLoad       \* operations each client is asked for

ASSUME StudyAssumption ==
    /\ IsFiniteSet(StudyClients) /\ \A c \in StudyClients : IsFiniteSet(StudyThreads[c])
    /\ StudyRequests \in [StudyClients -> Nat]

VARIABLES
    path_set,     \* per client: _path is not NULL
    request,      \* per client and thread: what it does
    up, down,     \* per client: packets to the server, to the client
    begun,     \* per client: requests so far
    connection,   \* per client: "none", "open", "left" (client gone),
                  \* "reset" (gone, and the next read fails), "closed"
    watched,      \* the epoll set
    client_sock,  \* main(): the socket accepted last, as a sequence
    main,         \* the server's main thread; "dead": the process has crashed
    thread_arg,   \* main(): the argument all handlers are started with
    handlers,     \* handler threads, in the order they were started
    astray        \* clients that left the protocol: see the steps that say so

studyVars == <<path_set, request, up, down, begun, connection, watched, client_sock,
               main, thread_arg, handlers, astray>>
clientVars == <<path_set, request, begun>>
serverVars == <<connection, watched, client_sock, main, thread_arg, handlers>>

Resting == [op |-> "", at |-> "idle", todo |-> <<>>]
Waiting == [at |-> "wait", sock |-> <<>>]

StudyInit ==
    /\ path_set = [c \in StudyClients |-> FALSE]
    /\ request = [c \in StudyClients |-> [t \in StudyThreads[c] |-> Resting]]
    /\ up = [c \in StudyClients |-> <<>>] /\ down = [c \in StudyClients |-> <<>>]
    /\ begun = [c \in StudyClients |-> 0]
    /\ connection = [c \in StudyClients |-> "none"]
    /\ watched = {} /\ client_sock = <<>> /\ main = Waiting
    /\ thread_arg = [sock |-> <<>>, op |-> ""] /\ handlers = <<>>
    /\ astray = {}
-----------------------------------------------------------------------------
(* The client.                                                              *)

(* The handlers: the packets one sends, and where each packet that it reads *)
(* leads.  fuse_study_write sends the opcode of READ, and returns without    *)
(* an answer; fuse_study_unlink answers without waiting for the server.     *)
Result == [ok |-> "idle", errno |-> "idle"]
fuse_study_lookup ==
    [sends |-> <<"lookup", "path">>,
     reads |-> [first |-> [flag1 |-> "second", flag0 |-> "idle"], second |-> [stat |-> "idle"]]]
fuse_study_getattr ==
    [sends |-> <<"getattr", "path">>,
     reads |-> [first |-> [ok |-> "second", errno |-> "idle"], second |-> [stat |-> "idle"]]]
fuse_study_readdir ==
    [sends |-> <<"readdir", "path">>,
     reads |-> [first |-> [flag1 |-> "second", flag0 |-> "idle"], second |-> [name |-> "third"],
                third |-> [stat |-> "first"]]]
fuse_study_open == [sends |-> <<"open", "path", "flags">>, reads |-> [first |-> Result]]
fuse_study_read ==
    [sends |-> <<"read", "path">>, reads |-> [first |-> [more |-> "first", end |-> "idle"]]]
fuse_study_create ==
    [sends |-> <<"create", "path">>, reads |-> [first |-> [stat |-> "idle"]]]
fuse_study_mkdir ==
    [sends |-> <<"mkdir", "path", "mode">>,
     reads |-> [first |-> [ok |-> "second", errno |-> "idle"], second |-> [stat |-> "idle"]]]
fuse_study_write == [sends |-> <<"read", "path", "data">>, reads |-> <<>>]
fuse_study_unlink == [sends |-> <<"unlink", "path">>, reads |-> <<>>]
fuse_study_rmdir == [sends |-> <<"rmdir", "path">>, reads |-> [first |-> Result]]
fuse_study_setattr == [sends |-> <<>>, reads |-> <<>>]
fuse_study_opendir == [sends |-> <<>>, reads |-> <<>>]
fs_oper ==
    [lookup |-> fuse_study_lookup, getattr |-> fuse_study_getattr, readdir |-> fuse_study_readdir,
     open |-> fuse_study_open, read |-> fuse_study_read, create |-> fuse_study_create,
     mkdir |-> fuse_study_mkdir, write |-> fuse_study_write, unlink |-> fuse_study_unlink,
     rmdir |-> fuse_study_rmdir, setattr |-> fuse_study_setattr, opendir |-> fuse_study_opendir]
StudyOps == DOMAIN fs_oper

Busy(c) == {t \in StudyThreads[c] : request[c][t].at # "idle"}

(* A request arrives.  getattr and open are refused while no lookup has set *)
(* _path; getattr of the root needs no server.  Before it reads, writes,    *)
(* makes or removes what is behind a name, the kernel looks the name up.    *)
(* Two requests at once mix their packets on the one socket.                *)
study_request(c, t, op) ==
    /\ connection[c] = "open" /\ c \notin astray
    /\ request[c][t].at = "idle" /\ begun[c] < StudyRequests[c] /\ op \in StudyLoad[c]
    /\ op \in {"read", "write", "mkdir", "rmdir", "unlink"} => path_set[c]
    /\ begun' = [begun EXCEPT ![c] = @ + 1]
    /\ path_set' = [path_set EXCEPT ![c] = @ \/ op = "lookup"]
    /\ LET refused == op \in {"getattr", "open"} /\ ~path_set[c]
           silent == fs_oper[op].sends = <<>>
       IN  \/ /\ refused \/ silent \/ op = "getattr"
              /\ UNCHANGED <<request, astray>>
           \/ /\ ~refused /\ ~silent
              /\ request' = [request EXCEPT ![c][t] =
                                 [op |-> op, at |-> "send", todo |-> fs_oper[op].sends]]
              /\ astray' = IF Busy(c) # {} THEN astray \cup {c} ELSE astray
    /\ UNCHANGED <<up, down, serverVars>>

(* One bound_send of the client.  After its last one, unlink answers the    *)
(* kernel, and write returns without an answer.                             *)
bound_send(c, t) ==
    LET r == request[c][t]
        last == Len(r.todo) = 1
    IN  /\ r.at = "send"
        /\ up' = [up EXCEPT ![c] = Append(@, Head(r.todo))]
        /\ request' = [request EXCEPT ![c][t] =
              IF ~last THEN [r EXCEPT !.todo = Tail(@)]
              ELSE IF r.op = "unlink" THEN Resting
              ELSE [r EXCEPT !.todo = <<>>,
                             !.at = IF r.op = "write" THEN "unanswered" ELSE "first"]]
        /\ astray' = IF last /\ r.op = "write" THEN astray \cup {c} ELSE astray
        /\ UNCHANGED <<path_set, begun, down, serverVars>>

(* Where the packet p leads a handler of operation op that reads it.        *)
ReadLeads(op, at, p) ==
    LET reads == fs_oper[op].reads
    IN  IF at \in DOMAIN reads /\ p \in DOMAIN reads[at] THEN reads[at][p] ELSE "lost"

(* One bound_read of the client.  A lookup that was told the file is not    *)
(* there leaves the stat the server sends all the same.  A readdir that     *)
(* fills the kernel's buffer leaves what the server still sends.            *)
bound_read(c, t) ==
    LET r == request[c][t]
        p == Head(down[c])
        next == ReadLeads(r.op, r.at, p)
    IN  /\ r.at \in {"first", "second", "third"} /\ down[c] # <<>>
        /\ down' = [down EXCEPT ![c] = Tail(@)]
        /\ \/ /\ request' = [request EXCEPT ![c][t] =
                                IF next = "idle" THEN Resting ELSE [r EXCEPT !.at = next]]
              /\ astray' = IF r.op = "lookup" /\ p = "flag0" THEN astray \cup {c} ELSE astray
           \/ /\ r.op = "readdir" /\ r.at = "third"
              /\ request' = [request EXCEPT ![c][t] = Resting]
              /\ astray' = astray \cup {c}
        /\ UNCHANGED <<path_set, begun, up, serverVars>>

(* The client is unmounted, which its kernel does between requests, or      *)
(* killed at any time.  What it has not read resets the connection.         *)
client_leaves(c) ==
    /\ connection[c] = "open"
    /\ connection' = [connection EXCEPT ![c] = IF down[c] = <<>> THEN "left" ELSE "reset"]
    /\ request' = [request EXCEPT ![c] = [t \in StudyThreads[c] |-> Resting]]
    /\ down' = [down EXCEPT ![c] = <<>>]
    /\ UNCHANGED <<path_set, begun, up, watched, client_sock, main, thread_arg, handlers, astray>>
-----------------------------------------------------------------------------
(* The server's operations: whether one reads a third packet first, and     *)
(* what it may send.  Nothing at all is sent by create when the file cannot *)
(* be made, and by read when it is empty; lookup sends a stat whether it is *)
(* there or not; mkdir sends its result without a packet around it.  A file *)
(* that read, or write, cannot open takes the whole server down in fseek(). *)
server_lookup == [third |-> FALSE, replies |-> {<<"flag1", "stat">>, <<"flag0", "stat">>}]
(* Mutant: the attributes are sent after an error too.                      *)
server_getattr_plain == [third |-> FALSE, replies |-> {<<"ok", "stat">>, <<"errno", "stat">>}]
server_getattr == [third |-> FALSE, replies |-> {<<"ok", "stat">>, <<"errno">>}]
server_readdir ==
    [third |-> FALSE, replies |-> {<<"flag0">>, <<"flag1", "name", "stat", "flag0">>}]
server_open == [third |-> TRUE, replies |-> {<<"ok">>, <<"errno">>}]
server_read ==
    [third |-> FALSE, replies |-> {<<"end">>, <<"more", "end">>, <<>>, <<"crash">>}]
server_create == [third |-> FALSE, replies |-> {<<"stat">>, <<>>}]
server_mkdir == [third |-> TRUE, replies |-> {<<"bytes">>, <<"bytes", "stat">>}]
server_write == server_read
server_unlink == [third |-> FALSE, replies |-> {<<>>}]
server_rmdir == [third |-> FALSE, replies |-> {<<"ok">>, <<"errno">>}]
server_default == [third |-> FALSE, replies |-> {<<>>}]
Server ==
    [lookup |-> server_lookup, getattr |-> server_getattr, readdir |-> server_readdir,
     open |-> server_open, read |-> server_read, create |-> server_create,
     mkdir |-> server_mkdir, write |-> server_write, unlink |-> server_unlink,
     rmdir |-> server_rmdir, other |-> server_default]
-----------------------------------------------------------------------------
(* The server's main thread.                                                *)

accept(c) ==
    /\ main.at = "wait" /\ connection[c] = "none"
    /\ connection' = [connection EXCEPT ![c] = "open"]
    /\ watched' = watched \cup {c}
    /\ client_sock' = <<c>>
    /\ UNCHANGED <<clientVars, up, down, main, thread_arg, handlers, astray>>

(* The end of a connection: what is closed and taken out of the epoll set   *)
(* is the socket accepted last, which may be another client's.              *)
main_closes(c) ==
    LET last == client_sock[1]
    IN  /\ main.at = "wait" /\ c \in watched
        /\ up[c] = <<>> /\ connection[c] = "left"
        /\ astray' = IF connection[last] = "open" THEN astray \cup {last} ELSE astray
        /\ connection' = [connection EXCEPT ![last] = "closed"]
        /\ watched' = watched \ {last}
        /\ UNCHANGED <<clientVars, up, down, client_sock, main, thread_arg, handlers>>

(* The opcode of a request; another packet is taken for some opcode.  So is *)
(* what an earlier read has left in pkt when the read fails, which is not   *)
(* tested for.  A client whose handler is still to read from the socket is  *)
(* astray then.                                                             *)
main_opcode(c, op) ==
    /\ main.at = "wait" /\ c \in watched
    /\ \/ /\ up[c] # <<>> /\ (Head(up[c]) \in DOMAIN Server => op = Head(up[c]))
          /\ up' = [up EXCEPT ![c] = Tail(@)]
          /\ UNCHANGED connection
       \/ /\ up[c] = <<>> /\ connection[c] = "reset" /\ UNCHANGED up
          /\ connection' = [connection EXCEPT ![c] = "left"]
    /\ thread_arg' = [thread_arg EXCEPT !.op = op]
    /\ main' = [at |-> "path", sock |-> <<c>>]
    /\ astray' = IF \E i \in DOMAIN handlers : handlers[i].sock = c /\ handlers[i].at # "rearm"
                 THEN astray \cup {c} ELSE astray
    /\ UNCHANGED <<clientVars, down, watched, client_sock, handlers>>

(* The path, whatever it is: also the packet of the opcode once more when   *)
(* the connection ends here.  Then the epoll set loses the socket accepted  *)
(* last, and a handler starts, with a pointer to main()'s own thread_arg.   *)
(* A client that loses its place in the epoll set to another one is astray. *)
main_path(c) ==
    LET last == client_sock[1]
    IN  /\ main.at = "path" /\ main.sock = <<c>>
        /\ \/ up[c] # <<>> /\ up' = [up EXCEPT ![c] = Tail(@)]
           \/ up[c] = <<>> /\ connection[c] # "open" /\ UNCHANGED up
        /\ thread_arg' = [thread_arg EXCEPT !.sock = <<c>>]
        /\ watched' = watched \ {last}
        /\ astray' = IF last # c /\ last \in watched THEN astray \cup {last} ELSE astray
        /\ handlers' = Append(handlers, [at |-> "start", sock |-> c, op |-> thread_arg.op])
        /\ main' = Waiting
        /\ UNCHANGED <<clientVars, down, connection, client_sock>>
-----------------------------------------------------------------------------
(* The server's handler threads.                                            *)

(* The handler reads its argument, in which main() may have written the     *)
(* next request already.                                                    *)
thread_handler(i) ==
    LET h == handlers[i]
        mine == [at |-> "serve", sock |-> thread_arg.sock[1], op |-> thread_arg.op]
    IN  /\ h.at = "start"
        /\ handlers' = [handlers EXCEPT ![i] = mine]
        /\ astray' = IF h.sock = mine.sock /\ h.op = mine.op THEN astray
                     ELSE astray \cup {h.sock, mine.sock}
        /\ UNCHANGED <<clientVars, up, down, connection, watched, client_sock, main, thread_arg>>

(* The process ends with all its threads: SIGSEGV, or SIGPIPE of a write to *)
(* a client that is gone.                                                   *)
server_dies ==
    /\ main' = [Waiting EXCEPT !.at = "dead"]
    /\ watched' = {} /\ handlers' = <<>>
    /\ astray' = StudyClients
    /\ UNCHANGED <<clientVars, up, down, connection, client_sock, thread_arg>>

serve(i) ==
    LET h == handlers[i]
        c == h.sock
        there == connection[c] = "open"
    IN  /\ h.at = "serve"
        /\ Server[h.op].third => up[c] # <<>> \/ ~there
        /\ \E reply \in Server[h.op].replies :
              \/ /\ reply = <<"crash">> \/ (reply # <<>> /\ connection[c] \in {"left", "reset"})
                 /\ server_dies
              \/ /\ reply # <<"crash">>
                 /\ up' = IF Server[h.op].third /\ up[c] # <<>>
                          THEN [up EXCEPT ![c] = Tail(@)] ELSE up
                 /\ down' = IF there THEN [down EXCEPT ![c] = @ \o reply] ELSE down
                 /\ astray' = IF h.op = "mkdir" \/ (reply = <<>> /\ h.op # "unlink")
                              THEN astray \cup {c} ELSE astray
                 /\ handlers' = [handlers EXCEPT ![i].at = "rearm"]
                 /\ UNCHANGED <<clientVars, connection, watched, client_sock, main, thread_arg>>

(* Mutant: the handler only ends.                                           *)
rearm_not(i) ==
    /\ handlers[i].at = "rearm"
    /\ handlers' = RemoveAt(handlers, i)
    /\ UNCHANGED <<clientVars, up, down, connection, watched, client_sock, main, thread_arg,
                   astray>>
(* The handler puts its socket back into the epoll set and ends.            *)
rearm(i) ==
    /\ handlers[i].at = "rearm"
    /\ watched' = IF connection[handlers[i].sock] = "closed" THEN watched
                  ELSE watched \cup {handlers[i].sock}
    /\ handlers' = RemoveAt(handlers, i)
    /\ UNCHANGED <<clientVars, up, down, connection, client_sock, main, thread_arg, astray>>

StudyServes ==
    \/ \E c \in StudyClients :
          \/ accept(c) \/ main_closes(c) \/ main_path(c)
          \/ \E op \in DOMAIN Server : main_opcode(c, op)
    \/ \E i \in DOMAIN handlers : thread_handler(i) \/ serve(i) \/ rearm(i)
StudyAnswers ==
    \E c \in StudyClients : \E t \in StudyThreads[c] : bound_send(c, t) \/ bound_read(c, t)

(* When every client is astray there is nothing left to say of them, and    *)
(* the model ends.                                                          *)
StudyNext ==
    /\ StudyClients \ astray # {}
    /\ \/ StudyServes \/ StudyAnswers
       \/ \E c \in StudyClients :
             \/ client_leaves(c)
             \/ \E t \in StudyThreads[c], op \in StudyOps : study_request(c, t, op)
-----------------------------------------------------------------------------
(* A client is astray once the code has left its own protocol for it: a     *)
(* lookup of a missing name, write, mkdir, a readdir cut short, a create or *)
(* read that is not answered, two requests at once; a request of another    *)
(* client that took its place in the epoll set or its handler's argument; a *)
(* socket closed for another one; a server that crashed.                    *)

(* A packet to a client that is not astray is read by the code it was sent  *)
(* for, and between requests nothing is left on the connection: client and  *)
(* server agree on the length of every exchange although nothing in a       *)
(* packet says it.                                                          *)
StudyExchange ==
    \A c \in StudyClients \ astray :
        /\ \A t \in StudyThreads[c] : request[c][t].at # "lost"
        /\ Busy(c) = {} => down[c] = <<>>

(* Every request of a client that does not go astray is answered, unless    *)
(* the main thread, which reads a path before it looks at anybody else, is  *)
(* kept waiting by a client that has: the socket is back in the epoll set   *)
(* whenever its client may send the next one.                               *)
StudyAnswered ==
    \A c \in StudyClients :
        (Busy(c) # {}) ~> (\/ Busy(c) = {} \/ c \in astray
                          \/ (main.at = "path" /\ ToSet(main.sock) \subseteq astray))

(* While a handler serves a socket, the main thread does not wait for it    *)
(* too, and so does not take the handler's packets for a request: "remove   *)
(* the socket from the epoll list before the thread is created"             *)
(* (server.c).                                                              *)
ServedUnwatched ==
    \A i \in DOMAIN handlers : handlers[i].sock \notin watched
=============================================================================
