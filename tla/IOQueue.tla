------------------------------- MODULE IOQueue --------------------------------
(***************************************************************************)
(* The keyboard and its queue, device/keyboard.c and device/ioqueue.c, with*)
(* the queue's mutex and the condition variables of kernel/sync.c.         *)
(*                                                                         *)
(* Readers are system calls, which run with interrupts off: a call runs    *)
(* from its start, or from where it was woken, to its end or to where it   *)
(* blocks, and neither another thread nor the keyboard's handler comes in  *)
(* between.  It blocks in cond_wait, which gives the mutex up, and also in *)
(* getline with the mutex held, when the user's buffer is in a page that   *)
(* must first be read from a file (page_not_present, kernel/memory.c:296). *)
(* Meanwhile other readers, and the handler, wait for the mutex.           *)
(***************************************************************************)
EXTENDS Integers, FiniteSets, SequencesExt

CONSTANTS Thread,
          LineReader, CharReader,  \* the threads that read lines, or characters
          Char, NL,   \* what can be typed, and the end of a line
          buf_size,   \* one more than the queue holds
          Count,      \* how much the reader of a line may ask for
          NULL

ASSUME IOQueueAssumption ==
  /\ LineReader \cup CharReader \subseteq Thread
  /\ NL \in Char /\ NULL \notin Thread
  /\ buf_size \in Nat /\ buf_size > 1
  /\ Count \subseteq Nat

\* The condition variables: a line, or a character, has come.
Condition == {"line", "char"}

VARIABLES buf, head, tail,
          lock,       \* who sleeps with the queue's mutex, or NULL
          local,      \* its variables: head and the end of its line
          mutex_list, \* the wait list of the mutex
          wait_list,  \* of each condition variable
          state,      \* of each thread: "out" of the queue's functions, "blocked"
                      \* in cond_wait, "queued" for the mutex, "ready" to ask for
                      \* it again, or asleep at a "fault" in getline
          call,       \* what a reader reads, and how much
          key,        \* what the handler on a thread's stack has to put in
          absent,     \* the readers whose buffer is still to be read from its file
          stuck,      \* the handler has blocked on idle's stack
          last        \* what the last call returned: the text and the number

queue == << buf, head, tail >>
mutex == << lock, local, mutex_list >>
threads == << wait_list, state, call, key, absent >>
vars == << queue, mutex, threads, stuck, last >>

Index == 0 .. buf_size - 1
\* For the whole line.
NoLimit == -1
LineCall == [of : {"line"}, count : Count \cup {NoLimit}]
CharCall == [of |-> "char"]
\* A key that stands for a character, or for backspace.
Backspace == [of |-> "backspace"]
Key == [of : {"put"}, char : Char] \cup {Backspace}
\* Neither a call nor a key.
None == [of |-> "none"]

\* Boot: ioqueue_init(); memset clears the buffer.
Init ==
  /\ buf = [i \in Index |-> 0]
  /\ head = buf_size - 1 /\ tail = 0
  /\ lock = NULL /\ local = None /\ mutex_list = << >>
  /\ wait_list = [l \in Condition |-> << >>]
  /\ state = [t \in Thread |-> "out"]
  /\ call = [t \in Thread |-> None] /\ key = [t \in Thread |-> None]
  /\ absent \in SUBSET LineReader
  /\ stuck = FALSE
  /\ last = [text |-> << >>, ret |-> 0]

\* The number of characters from head to tail, and the i-th of them after h.
Available == (tail + buf_size - head - 1) % buf_size
After(h, i) == buf[(h + i) % buf_size]
At(i) == After(head, i)

-----------------------------------------------------------------------------
First(l) == IF l = << >> THEN NULL ELSE Head(l)
Rest(l) == IF l = << >> THEN l ELSE Tail(l)

\* thread_unblock() of each of ts, when the states are st.
unblock(st, ts) == [t \in Thread |-> IF t \in ts THEN "ready" ELSE st[t]]

\* mutex_release() unblocks the first that waits for the mutex.
released == {First(mutex_list)}
mutex_release == lock' = NULL /\ local' = None /\ mutex_list' = Rest(mutex_list)

\* cond_signal() of each of conds unblocks the first of its list.
signalled(conds) == { First(wait_list[l]) : l \in conds }
cond_signal(conds) ==
  wait_list' = [l \in Condition |-> IF l \in conds THEN Rest(wait_list[l]) ELSE wait_list[l]]

\* mutex_acquire() of a mutex that somebody sleeps with.
mutex_wait(t) ==
  /\ mutex_list' = Append(mutex_list, t)
  /\ state' = [state EXCEPT ![t] = "queued"]
  /\ UNCHANGED << queue, lock, local, wait_list, absent, stuck, last >>

\* cond_wait(): the thread gives back the mutex, joins the list and gives up the
\* processor.
cond_wait(t, c) ==
  /\ mutex_release
  /\ call' = [call EXCEPT ![t] = c]
  /\ wait_list' = [wait_list EXCEPT ![c.of] = Append(@, t)]
  /\ state' = unblock([state EXCEPT ![t] = "blocked"], released)
  /\ UNCHANGED << head, absent, last >>

Full == Available >= buf_size - 1

\* A wrong variant of ioqueue_putchar: the end of a line wakes no reader of lines.
putchar_signal_char(c, st) ==
  /\ IF Full THEN UNCHANGED << buf, tail >>
     ELSE buf' = [buf EXCEPT ![tail] = c] /\ tail' = (tail + 1) % buf_size
  /\ cond_signal({"char"})
  /\ state' = unblock(st, signalled({"char"}) \cup released)

\* ioqueue_putchar() with the mutex, when the states are st: a character that does
\* not fit is dropped, yet signalled.
ioqueue_putchar(c, st) ==
  LET conds == IF c = NL THEN {"line", "char"} ELSE {"char"}
  IN  /\ IF Full THEN UNCHANGED << buf, tail >>
         ELSE buf' = [buf EXCEPT ![tail] = c] /\ tail' = (tail + 1) % buf_size
      /\ cond_signal(conds)
      /\ state' = unblock(st, signalled(conds) \cup released)

\* ioqueue_pop_back_char() with the mutex.
ioqueue_pop_back_char(st) ==
  /\ tail' = IF Available > 0 THEN (tail + buf_size - 1) % buf_size ELSE tail
  /\ state' = unblock(st, released)
  /\ UNCHANGED << buf, wait_list >>

\* The rest of the handler, which has the mutex and its thread's stack; what codes
\* stand for the key, and the echo, are left out.
Handle(k, st) ==
  /\ IF k = Backspace THEN ioqueue_pop_back_char(st) ELSE ioqueue_putchar(k.char, st)
  /\ mutex_release
  /\ UNCHANGED << head, absent, stuck, last >>

\* A wrong variant of keyboard_handler: it does not ask for the mutex.
handler_unlocked(k) ==
  /\ ~ stuck
  /\ IF k = Backspace THEN ioqueue_pop_back_char(state) ELSE ioqueue_putchar(k.char, state)
  /\ UNCHANGED << head, mutex, call, key, absent, stuck, last >>

\* keyboard_handler().  When a reader sleeps with the mutex, the handler blocks the
\* thread that it has interrupted: one in user mode, or idle, which runs only when
\* nobody is ready.  Idle is chosen to run again, although blocked, and goes round the
\* loop of mutex_acquire with interrupts off, for ever: the disk is not heard any more.
keyboard_handler(k) ==
  /\ ~ stuck
  /\ \/ /\ lock = NULL
        /\ Handle(k, state) /\ UNCHANGED << call, key >>
     \/ /\ lock # NULL
        /\ \E t \in Thread :
             /\ state[t] = "out"
             /\ key' = [key EXCEPT ![t] = k]
             /\ mutex_wait(t) /\ UNCHANGED call
     \/ /\ lock # NULL /\ \A t \in Thread : state[t] # "ready"
        /\ stuck' = TRUE
        /\ UNCHANGED << queue, mutex, threads, last >>

-----------------------------------------------------------------------------
\* What a reader does each time it has the mutex: it takes what it asked for, or
\* waits.

Leaves(t) ==
  /\ mutex_release
  /\ call' = [call EXCEPT ![t] = None]
  /\ state' = unblock([state EXCEPT ![t] = "out"], released)
  /\ UNCHANGED wait_list

\* ioqueue_getchar().
getchar(t, c) ==
  \/ Available = 0 /\ cond_wait(t, c)
  \/ /\ Available > 0
     /\ head' = (head + 1) % buf_size
     /\ last' = [text |-> << At(1) >>, ret |-> 1]
     /\ Leaves(t) /\ UNCHANGED absent

\* The places, counted from head, of the ends of lines.
LineEnds == { i \in 1 .. Available : At(i) = NL }

\* The line from h + 1 to h + end is copied: its end is stored if there is room for
\* it, and is counted in any case; what there is no room for is thrown away.
TakeLine(t, c, h, end) ==
  LET copied == IF c.count = NoLimit \/ end <= c.count THEN end ELSE c.count
  IN  /\ head' = (h + end) % buf_size
      /\ last' = [text |-> [i \in 1 .. copied |-> After(h, i)],
                  ret |-> IF copied = end THEN end ELSE copied + 1]
      /\ Leaves(t)

\* The page of the user's buffer is not there: page_not_present() reads it.
Faults(t, c) ==
  /\ local' = [head |-> head, end |-> Min(LineEnds)]
  /\ call' = [call EXCEPT ![t] = c]
  /\ state' = [state EXCEPT ![t] = "fault"]
  /\ UNCHANGED << head, mutex_list, wait_list, absent, last >>

\* ioqueue_getline(): waits for a line and copies it to the user's buffer, or falls
\* asleep in the copying, with the mutex.
getline(t, c) ==
  \/ LineEnds = {} /\ cond_wait(t, c)
  \/ /\ LineEnds # {} /\ (t \notin absent \/ c.count = 0)
     /\ TakeLine(t, c, head, Min(LineEnds)) /\ UNCHANGED absent
  \/ /\ LineEnds # {} /\ t \in absent /\ c.count # 0
     /\ Faults(t, c) /\ lock' = t

\* A reader asks for the mutex, to read what c says.
Read(t, c) ==
  \/ /\ lock # NULL
     /\ mutex_wait(t) /\ call' = [call EXCEPT ![t] = c]
  \/ /\ lock = NULL
     /\ IF c.of = "line" THEN getline(t, c) ELSE getchar(t, c)
     /\ UNCHANGED << buf, tail, stuck >>

\* keyboard_read() or keyboard_readline() is called.
keyboard_read(t, c) ==
  /\ t \in IF c = CharCall THEN CharReader ELSE LineReader
  /\ ~ stuck /\ state[t] = "out"
  /\ Read(t, c) /\ UNCHANGED key

\* A reader that was signalled, or woken by mutex_release, runs.
Resume(t) ==
  /\ ~ stuck /\ state[t] = "ready" /\ key[t] = None
  /\ Read(t, call[t]) /\ UNCHANGED key

\* So does a handler that was woken by mutex_release.
ResumeHandler(t) ==
  /\ ~ stuck /\ state[t] = "ready" /\ key[t] # None
  /\ UNCHANGED call
  /\ \/ lock # NULL /\ mutex_wait(t) /\ UNCHANGED key
     \/ /\ lock = NULL
        /\ key' = [key EXCEPT ![t] = None]
        /\ Handle(key[t], [state EXCEPT ![t] = "out"])

\* The buffer's page has come: getline goes on with what it had read of the queue.
PageIn(t) ==
  /\ ~ stuck /\ state[t] = "fault"
  /\ absent' = absent \ {t}
  /\ TakeLine(t, call[t], local.head, local.end)
  /\ UNCHANGED << buf, tail, key, stuck >>

Next ==
  \/ \E k \in Key : keyboard_handler(k)
  \/ \E t \in Thread :
       \/ \E c \in LineCall \cup {CharCall} : keyboard_read(t, c)
       \/ Resume(t) \/ ResumeHandler(t) \/ PageIn(t)

\* A ready thread runs in the end, as KThread shows, and the disk answers.
Fairness == \A t \in Thread : WF_vars(Resume(t) \/ ResumeHandler(t) \/ PageIn(t))

Spec == Init /\ [][Next]_vars
FairSpec == Spec /\ Fairness

-----------------------------------------------------------------------------
\* The ring is a bounded queue of characters, one less than its places: none is
\* lost but those that do not fit, none comes twice, and a line is taken whole,
\* although head and tail wrap, backspace moves the tail back, and a reader sleeps
\* between looking for a line and taking it.
Promised == INSTANCE LineQueue
  WITH queue <- [i \in 1 .. Available |-> At(i)], Capacity <- buf_size - 1
ImplementsQueue == Promised!Spec

\* Who waits for a line while there is one gets out, or the lines are gone, taken
\* by others, or erased: although readers sleep with the mutex, and wake-ups hand
\* over neither the mutex nor the line.  Except that the handler may have blocked
\* on idle's stack, which is the end of all (README, section 5).
LineServed ==
  \A t \in Thread :
    (call[t].of = "line" /\ LineEnds # {}) ~> (call[t] = None \/ LineEnds = {} \/ stuck)

=============================================================================
