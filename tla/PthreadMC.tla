----------------------------- MODULE PthreadMC -----------------------------
(* Small instances of Pthread for model checking. *)
EXTENDS Pthread

\* A reader, a writer and a thread that does both and tries, with two rounds of a
\* barrier for two; one thread waits for the semaphore that another posts once.
MCMixed ==
  << <<"tryrdlock", "unlock", "barrier", "sem_wait", "barrier", "sem_timedwait">>,
     <<"wrlock", "unlock", "barrier", "sem_post", "barrier", "once">>,
     <<"trywrlock", "unlock", "rdlock", "unlock", "once">> >>

\* Two threads wait for a semaphore that the third posts twice.
MCTwoWaiters == << <<"sem_wait">>, <<"sem_wait">>, <<"sem_post", "sem_post">> >>
============================================================================
