----------------------------- MODULE SgiMailbox -----------------------------
(***************************************************************************)
(* What the interrupt controller promises to the cores, without its        *)
(* queues, registers and lines.                                            *)
(*                                                                         *)
(* Every core owns a mailbox: the list of the software generated           *)
(* interrupts (SGIs) ever posted to it.  The controller shows a core the   *)
(* SGIs of its mailbox one at a time, in the order in which they were      *)
(* posted, each of them once; between two of them it may show nothing.     *)
(* Showing is not delivery: the next SGI may take the place of one the     *)
(* core never looked at.                                                   *)
(***************************************************************************)
EXTENDS Integers, Sequences

CONSTANTS
  Cores,    \* the cores of the machine
  Message,  \* what is posted: an interrupt number and its sender
  Nothing   \* shown to a core when no SGI is (not a Message)

VARIABLES
  mail,     \* mail[c]: everything ever posted to core c, oldest first
  cursor,   \* cursor[c]: how many of them have been shown to c
  shown     \* shown[c]: what c sees when it looks, a Message or Nothing

mailboxVars == <<mail, cursor, shown>>

MailboxInit ==
  /\ mail   = [c \in Cores |-> <<>>]
  /\ cursor = [c \in Cores |-> 0]
  /\ shown  = [c \in Cores |-> Nothing]

\* One message is posted to a set of cores at once.
Post(to, m) ==
  /\ mail' = [c \in Cores |-> IF c \in to THEN Append(mail[c], m) ELSE mail[c]]
  /\ UNCHANGED <<cursor, shown>>

\* Core c is shown its next message, in place of whatever it saw before.
Show(c) ==
  /\ cursor[c] < Len(mail[c])
  /\ cursor' = [cursor EXCEPT ![c] = @ + 1]
  /\ shown'  = [shown EXCEPT ![c] = mail[c][cursor[c] + 1]]
  /\ UNCHANGED mail

\* Core c is shown nothing, which happens only once its mail has run out.
Withdraw(c) ==
  /\ cursor[c] = Len(mail[c])
  /\ shown' = [shown EXCEPT ![c] = Nothing]
  /\ UNCHANGED <<mail, cursor>>

MailboxNext ==
  \/ \E to \in SUBSET Cores, m \in Message : Post(to, m)
  \/ \E c \in Cores : Show(c) \/ Withdraw(c)

MailboxSafety == MailboxInit /\ [][MailboxNext]_mailboxVars

\* Posted messages do not wait for ever.
MailboxSpec == MailboxSafety /\ \A c \in Cores : WF_mailboxVars(Show(c))
=============================================================================
