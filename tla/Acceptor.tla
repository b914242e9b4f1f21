------------------------------ MODULE Acceptor ------------------------------
(***************************************************************************)
(* muduo::net::Acceptor: it listens, and handleRead() accepts one client   *)
(* per event.  When the process has no descriptor left, it gives up the    *)
(* one it keeps in idleFd_ to accept the client and turn it away.  Other   *)
(* threads may close connections, and so free descriptors, between any two *)
(* of these system calls.                                                  *)
(***************************************************************************)
EXTENDS Integers

VARIABLES listenning_,
          idleFd_,        \* "held", "lost" (-1), "client" while it is the client to turn away, "closed"
          free,           \* descriptors that the process may still open
          waiting,        \* clients in the queue of the listening socket
          reading         \* where handleRead() is: "no", "emfile", "accepted", "reopen"

acceptorVars == <<listenning_, idleFd_, free, waiting, reading>>

AcceptorInit(fds) ==
  /\ listenning_ = FALSE /\ idleFd_ = "held" /\ free = fds
  /\ waiting = 0 /\ reading = "no"

listen ==
  /\ ~listenning_ /\ listenning_' = TRUE
  /\ UNCHANGED <<idleFd_, free, waiting, reading>>

\* epoll_wait(2) reports the listening socket as long as a client waits.
Readable == listenning_ /\ waiting > 0 /\ reading = "no"

\* handleRead(), accept(2) succeeds: newConnectionCallback_ is the caller's to add.
AcceptClient ==
  /\ Readable /\ free > 0
  /\ free' = free - 1 /\ waiting' = waiting - 1
  /\ UNCHANGED <<listenning_, idleFd_, reading>>

\* handleRead(), the client has gone (ECONNABORTED): an expected error, and nothing is done.
AcceptAborted ==
  /\ Readable /\ waiting' = waiting - 1
  /\ UNCHANGED <<listenning_, idleFd_, free, reading>>

\* handleRead(), accept(2) fails with EMFILE.
AcceptFails ==
  /\ Readable /\ free = 0 /\ reading' = "emfile"
  /\ UNCHANGED <<listenning_, idleFd_, free, waiting>>

\* ::close(idleFd_); idleFd_ = ::accept(acceptSocket_.fd(), NULL, NULL)
TakeClient ==
  /\ reading = "emfile" /\ reading' = "accepted"
  /\ LET room == IF idleFd_ = "held" THEN free + 1 ELSE free
     IN  IF room > 0 /\ waiting > 0
         THEN idleFd_' = "client" /\ free' = room - 1 /\ waiting' = waiting - 1
         ELSE idleFd_' = "lost" /\ free' = room /\ UNCHANGED waiting
  /\ UNCHANGED listenning_

TurnAway ==
  /\ reading = "accepted" /\ reading' = "reopen"
  /\ free' = IF idleFd_ = "client" THEN free + 1 ELSE free
  /\ idleFd_' = "lost"
  /\ UNCHANGED <<listenning_, waiting>>

\* Mutant: handleRead() returns without a new idle descriptor.
Reopen_Not ==
  /\ reading = "reopen" /\ reading' = "no"
  /\ UNCHANGED <<idleFd_, free, listenning_, waiting>>

\* idleFd_ = ::open("/dev/null", O_RDONLY | O_CLOEXEC)
Reopen ==
  /\ reading = "reopen" /\ reading' = "no"
  /\ IF free > 0 THEN idleFd_' = "held" /\ free' = free - 1 ELSE UNCHANGED <<idleFd_, free>>
  /\ UNCHANGED <<listenning_, waiting>>

\* ~Acceptor(): the clients that still wait are reset by the kernel.
DestructAcceptor(freed) ==
  /\ reading = "no"
  /\ listenning_' = FALSE /\ waiting' = 0 /\ idleFd_' = "closed"
  /\ free' = free + freed + (IF idleFd_ = "held" THEN 1 ELSE 0)
  /\ UNCHANGED reading
=============================================================================
