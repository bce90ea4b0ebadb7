-------------------------- MODULE MCServiceRegistry --------------------------
(***************************************************************************)
(* Endpoints and installations for model checking ServiceRegistry.         *)
(***************************************************************************)
EXTENDS ServiceRegistry, TLC

CONSTANTS s1, s2, health, e1, e2, t1, t2

\* e1 lists two services one of whose files imports the other's; e2 serves one of
\* them too, and the health service.
TwoServers == (e1 :> <<{s1, s2}, {s2}>>) @@ (e2 :> <<{s2}, {health}>>)

Unlimited == [expire |-> 0, max |-> 3]
Expiring(max) == [expire |-> 2, max |-> max]

Install(limits, registrars, readers, aborts) ==
  [limits |-> limits, registrars |-> registrars, readers |-> readers, aborts |-> aborts]

\* Registrations that may be aborted, two at a time and one by one; one thread of each
\* kind, with storages that forget nothing, idle entries only, and what they have no
\* room for.
ManySetups ==
  { Install(Unlimited, {t1, t2}, {}, TRUE),
    Install(Unlimited, {t1}, {}, TRUE),
    Install(Unlimited, {t1}, {t2}, FALSE),
    Install(Expiring(3), {t1}, {t2}, FALSE),
    Install(Expiring(2), {t1}, {t2}, FALSE) }

ExpiringSetups == { Install(Expiring(3), {t1}, {t2}, FALSE) }
=============================================================================
