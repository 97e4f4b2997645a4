----------------------------- MODULE PrefixUpdate -----------------------------
(***************************************************************************)
(* Advertising and withdrawing name prefixes at run time: nlsrc sends a    *)
(* command, PrefixUpdateProcessor has it validated, changes NamePrefixList *)
(* and builds and publishes the own Name LSA, and answers.                 *)
(*                                                                         *)
(* Commands of several nlsrc processes are under way at a time; validating *)
(* one may take fetching certificates, and commands are carried out in the *)
(* order this ends.  Interests and answers may be lost, and nlsrc gives up *)
(* after some time, whatever becomes of its command.                       *)
(***************************************************************************)
EXTENDS Integers, Sequences, FiniteSets

CONSTANTS
  Clients,       \* nlsrc processes
  NamePrefixes,      \* prefixes in commands
  Configured,    \* the prefixes of nlsr.conf
  NoName,        \* a command without a name
  MaxCommands    \* bound: commands sent

ASSUME CommandAssumption ==
  Configured \subseteq NamePrefixes /\ NoName \notin NamePrefixes /\ MaxCommands \in Nat

Codes == {200, 400, 403, 501}
Nack == 0
Timeout == 10060

VARIABLES
  enabled,       \* m_isEnabled: nlsr.conf has a prefix-update-validator
  prefixes,      \* NamePrefixList
  nameLsas,     \* the own Name LSAs published, by number
  commands,      \* commands sent, by number; a client waits for its last one
  traffic        \* Interests and answers on their way

updateVars == <<enabled, prefixes, nameLsas, commands, traffic>>

Sent == DOMAIN commands
Waiting(c) == {i \in Sent : commands[i].client = c /\ commands[i].result = -1}
Interest(i) == [what |-> "interest", number |-> i, code |-> -1]
Checked(i)  == [what |-> "checked", number |-> i, code |-> -1]
Answer(i, code) == [what |-> "answer", number |-> i, code |-> code]
Latest == nameLsas[Len(nameLsas)]

UpdateInit ==
  /\ enabled \in BOOLEAN
  /\ prefixes = Configured /\ nameLsas = <<Configured>>
  /\ commands = <<>> /\ traffic = {}

-----------------------------------------------------------------------------
(* nlsrc.                                                                  *)

\* nlsrc itself sends a name and one of its two verbs; the processor also takes
\* what other programs send.
SendNamePrefixUpdate(c) ==
  /\ Waiting(c) = {} /\ Len(commands) < MaxCommands
  /\ \E verb \in {"advertise", "withdraw", "other"}, name \in NamePrefixes \union {NoName} :
       commands' = Append(commands, [client |-> c, verb |-> verb, name |-> name, result |-> -1,
                                     since |-> Len(nameLsas)])
  /\ traffic' = traffic \union {Interest(Len(commands'))}
  /\ UNCHANGED <<enabled, prefixes, nameLsas>>

OnControlResponse(c) ==
  \E i \in Waiting(c), a \in traffic :
    /\ a.what = "answer" /\ a.number = i
    /\ commands' = [commands EXCEPT ![i].result = a.code]
    /\ traffic' = traffic \ {a}
    /\ UNCHANGED <<enabled, prefixes, nameLsas>>

\* The Interest is not taken back.
OnTimeout(c) ==
  \E i \in Waiting(c) :
    /\ commands' = [commands EXCEPT ![i].result = Timeout]
    /\ UNCHANGED <<enabled, prefixes, nameLsas, traffic>>

Lose(t) ==
  /\ t \in traffic /\ t.what # "checked"
  /\ traffic' = traffic \ {t}
  /\ UNCHANGED <<enabled, prefixes, nameLsas, commands>>

-----------------------------------------------------------------------------
(* PrefixUpdateProcessor.                                                  *)

OnInterest(t) ==
  /\ t \in traffic /\ t.what = "interest"
  /\ traffic' = (traffic \ {t})
                \union {IF enabled THEN Checked(t.number) ELSE Answer(t.number, Nack)}
  /\ UNCHANGED <<enabled, prefixes, nameLsas, commands>>

\* Mutant: the list changes and no Name LSA is built.
Mut_UpdateUnpublished(list) == prefixes' = list /\ nameLsas' = nameLsas

\* The Name LSA is built and published only if the list has changed.
Update(list) ==
  /\ prefixes' = list
  /\ nameLsas' = IF list = prefixes THEN nameLsas ELSE Append(nameLsas, list)

\* A command without a name is answered twice, with 400 and then with 200; the
\* first one takes the Interest with it, and is the one nlsrc gets.
OnCommandValidated(t) ==
  /\ t \in traffic /\ t.what = "checked"
  /\ LET command == commands[t.number]
         Respond(code) == traffic' = (traffic \ {t}) \union {Answer(t.number, code)}
     IN \/ command.verb = "other" /\ Respond(501) /\ UNCHANGED <<prefixes, nameLsas>>
        \/ command.verb # "other" /\ command.name = NoName
           /\ Respond(400) /\ UNCHANGED <<prefixes, nameLsas>>
        \/ command.verb = "advertise" /\ command.name # NoName
           /\ Respond(200) /\ Update(prefixes \union {command.name})
        \/ command.verb = "withdraw" /\ command.name # NoName
           /\ Respond(200) /\ Update(prefixes \ {command.name})
  /\ UNCHANGED <<enabled, commands>>

OnCommandValidationFailed(t) ==
  /\ t \in traffic /\ t.what = "checked"
  /\ traffic' = (traffic \ {t}) \union {Answer(t.number, 403)}
  /\ UNCHANGED <<enabled, prefixes, nameLsas, commands>>

UpdateNext ==
  \/ \E c \in Clients : SendNamePrefixUpdate(c) \/ OnControlResponse(c) \/ OnTimeout(c)
  \/ \E t \in traffic : OnInterest(t) \/ OnCommandValidated(t) \/ OnCommandValidationFailed(t) \/ Lose(t)

UpdateSpec == UpdateInit /\ [][UpdateNext]_updateVars

-----------------------------------------------------------------------------
(* Properties.                                                             *)

\* A command reported as applied was so at some moment after it was sent, in
\* what was published, however commands overtook each other; and a prefix that
\* was not configured is published only if somebody sent its advertisement
\* and was not told that it failed.
ReportsAreTrue ==
  /\ \A i \in Sent :
       commands[i].result = 200 =>
         \E k \in commands[i].since..Len(nameLsas) :
           (commands[i].verb = "advertise") = (commands[i].name \in nameLsas[k])
  /\ \A k \in 1..Len(nameLsas) : \A p \in nameLsas[k] \ Configured :
       \E i \in Sent : /\ commands[i].verb = "advertise" /\ commands[i].name = p
                          /\ commands[i].result \in {-1, 200, Timeout}
===============================================================================
