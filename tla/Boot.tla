-------------------------------- MODULE Boot --------------------------------
(***************************************************************************)
(* main() (threads/init.c): the order in which the kernel's parts come up, *)
(* while interrupts arrive, the page tables of paging_init(), the options  *)
(* and actions of the command line, and how the machine stops: through     *)
(* devices/shutdown.c, also after a PANIC (lib/kernel/debug.c).            *)
(***************************************************************************)
EXTENDS Integers, Sequences, SequencesExt

CONSTANTS CommandLines,    \* command lines, sequences of words
          Test,            \* the names run_test() knows
          init_ram_pages,
          PER_TABLE,       \* entries of a page table, 1024
          KernelText       \* pages of kernel text

VARIABLES step,            \* main()'s current call, an index of main
          ready,           \* calls that have returned
          intr_flag,       \* are interrupts on?
          used_early,      \* something was used before it was set up
          words, argv,     \* the command line, and what is left of it
          tests,           \* the tests run
          how,             \* shutdown.c's HOW
          panicked,        \* has debug_panic() been called?
          machine,         \* "up", "off", "reboot", or "spin": in debug_panic()'s loop
          pd               \* the page directory: page tables by index

bootvars == <<step, ready, intr_flag, used_early, words, argv, tests, how, panicked, machine, pd>>

\* The calls of main(), in order.
\* Mutation: the input buffer is set up once all else is.
main_input_late ==
  <<"bss_init", "read_command_line", "parse_options", "thread_init", "console_init", "palloc_init", "malloc_init",
    "paging_init", "intr_init", "timer_init", "kbd_init", "thread_start", "input_init", "serial_init_queue",
    "timer_calibrate", "run_actions", "shutdown">>

main ==
  <<"bss_init", "read_command_line", "parse_options", "thread_init", "console_init", "palloc_init", "malloc_init",
    "paging_init", "intr_init", "timer_init", "kbd_init", "input_init", "thread_start", "serial_init_queue",
    "timer_calibrate", "run_actions", "shutdown">>

\* What a call uses: locks need the running thread, pages their pools,
\* registering a handler the tables, a new thread a page and a tid, and sleeping
\* and calibration the timer.
uses == [c \in {main[i] : i \in DOMAIN main} |->
  CASE c = "read_command_line" -> {"bss_init"}
    [] c = "parse_options" -> {"read_command_line"}
    [] c = "console_init" -> {"thread_init"}
    [] c = "palloc_init" -> {"thread_init", "console_init"}
    [] c = "paging_init" -> {"palloc_init"}
    [] c \in {"timer_init", "kbd_init", "serial_init_queue"} -> {"intr_init"}
    [] c = "thread_start" -> {"thread_init", "palloc_init"}
    [] c = "timer_calibrate" -> {"timer_init", "thread_start"}
    [] c = "run_actions" -> {"palloc_init", "malloc_init", "timer_calibrate", "serial_init_queue"}
    [] OTHER -> {}]

\* The handlers, by the call that registers them, and what they use.
handler_uses == [timer_init |-> {"thread_init"}, kbd_init |-> {"input_init"}, serial_init_queue |-> {"input_init"}]

BootInit ==
  /\ step = 1 /\ ready = {} /\ intr_flag = FALSE /\ used_early = FALSE
  /\ words = <<>> /\ argv = <<>> /\ tests = <<>>
  /\ how = "SHUTDOWN_NONE" /\ panicked = FALSE /\ machine = "up" /\ pd = <<>>

calling(c) == machine = "up" /\ step <= Len(main) /\ main[step] = c

call_returns(c) ==
  /\ step' = step + 1 /\ ready' = ready \cup {c}
  /\ used_early' = (used_early \/ ~(uses[c] \subseteq ready))

\* shutdown(): what becomes of a machine in state M.
shutdown_as(h, m) == CASE h = "SHUTDOWN_POWER_OFF" -> "off" [] h = "SHUTDOWN_REBOOT" -> "reboot" [] OTHER -> m

\* debug_panic(): shuts down as configured, and loops if shutdown() returns.
PANIC ==
  /\ panicked' = TRUE /\ intr_flag' = FALSE
  /\ machine' = shutdown_as(how, "spin")

----------------------------------------------------------------------------
(* main() *)

\* The calls that only set something up, and thread_start(), which enables
\* interrupts.
set_up(c) ==
  /\ calling(c)
  /\ call_returns(c)
  /\ intr_flag' = (intr_flag \/ c = "thread_start")
  /\ UNCHANGED <<words, argv, tests, how, panicked, machine, pd>>

\* The words fit LOADER_ARGS_LEN.
read_command_line(w) ==
  /\ calling("read_command_line")
  /\ call_returns("read_command_line")
  /\ words' = w /\ argv' = w
  /\ UNCHANGED <<intr_flag, tests, how, panicked, machine, pd>>

is_option(w) == w \in {"-h", "-q", "-r", "-x"}

\* parse_options(): one option, up to the first word that is none.  usage()
\* powers the machine off.
parse_options ==
  /\ calling("parse_options")
  /\ IF argv = <<>> \/ ~is_option(argv[1])
     THEN call_returns("parse_options") /\ UNCHANGED <<intr_flag, argv, how, panicked, machine>>
     ELSE /\ argv' = Tail(argv)
          /\ \/ argv[1] = "-h" /\ machine' = "off" /\ UNCHANGED <<intr_flag, how, panicked>>
             \/ argv[1] = "-q" /\ how' = "SHUTDOWN_POWER_OFF" /\ UNCHANGED <<intr_flag, panicked, machine>>
             \/ argv[1] = "-r" /\ how' = "SHUTDOWN_REBOOT" /\ UNCHANGED <<intr_flag, panicked, machine>>
             \/ argv[1] \notin {"-h", "-q", "-r"} /\ PANIC /\ UNCHANGED how
          /\ UNCHANGED <<step, ready, used_early>>
  /\ UNCHANGED <<words, tests, pd>>

\* The run action's words, its name included.
action_argc == 2

\* Is the first word an action that has its argument, and names a test?
is_action == argv[1] = "run" /\ Len(argv) >= action_argc /\ argv[2] \in Test

\* run_actions(): one action.
run_actions ==
  /\ calling("run_actions")
  /\ \/ argv = <<>> /\ call_returns("run_actions") /\ UNCHANGED <<intr_flag, argv, tests, panicked, machine>>
     \/ argv # <<>> /\ ~is_action /\ PANIC /\ UNCHANGED <<step, ready, used_early, argv, tests>>
     \/ /\ argv # <<>> /\ is_action
        /\ tests' = Append(tests, argv[2])
        /\ argv' = SubSeq(argv, action_argc + 1, Len(argv))
        /\ UNCHANGED <<step, ready, intr_flag, used_early, panicked, machine>>
  /\ UNCHANGED <<words, how, pd>>

\* shutdown(), and thread_exit() if it returns.
shutdown ==
  /\ calling("shutdown")
  /\ call_returns("shutdown")
  /\ machine' = shutdown_as(how, machine)
  /\ UNCHANGED <<intr_flag, words, argv, tests, how, panicked, pd>>

\* An interrupt whose handler is registered.
interrupt(c) ==
  /\ machine = "up" /\ intr_flag /\ c \in ready
  /\ used_early' = (used_early \/ ~(handler_uses[c] \subseteq ready))
  /\ UNCHANGED <<step, ready, intr_flag, words, argv, tests, how, panicked, machine, pd>>

----------------------------------------------------------------------------
(* Page tables *)

pd_no(page) == page \div PER_TABLE
pt_no(page) == page % PER_TABLE

has_table(d, page) == pd_no(page) \in DOMAIN d

\* One page of paging_init()'s loop.
map_page(d, page) ==
  LET pt == IF has_table(d, page) THEN d[pd_no(page)] ELSE [i \in 0 .. PER_TABLE - 1 |-> <<>>]
      entry == [page |-> page, writable |-> page \notin KernelText]
  IN [i \in DOMAIN d \cup {pd_no(page)} |-> IF i = pd_no(page) THEN [k \in DOMAIN pt |-> IF k = pt_no(page) THEN <<entry>> ELSE pt[k]]
                                            ELSE d[i]]

paging_init ==
  /\ calling("paging_init")
  /\ call_returns("paging_init")
  /\ pd' = FoldLeft(LAMBDA d, page : map_page(d, page - 1), [i \in {} |-> 0], [page \in 1 .. init_ram_pages |-> page])
  /\ UNCHANGED <<intr_flag, words, argv, tests, how, panicked, machine>>

BootNext ==
  \/ \E c \in {"bss_init", "thread_init", "console_init", "palloc_init", "malloc_init", "intr_init", "timer_init",
               "kbd_init", "input_init", "thread_start", "serial_init_queue", "timer_calibrate"} : set_up(c)
  \/ \E w \in CommandLines : read_command_line(w)
  \/ parse_options \/ paging_init \/ run_actions \/ shutdown
  \/ \E c \in DOMAIN handler_uses : interrupt(c)

----------------------------------------------------------------------------
(* Properties *)

\* No call of main(), and no interrupt handler that comes in between, uses a
\* part of the kernel before it has been set up.
NothingUsedEarly == ~used_early

\* When the command line has been carried out, or has stopped the machine,
\* exactly the tests named by the actions have run, in order, up to the first
\* word that is no action or no test; the kernel has panicked if and only if
\* there was such a word or an unknown option; and the last of the options -q and
\* -r says what becomes of the machine, also after a panic.
CommandLineDone ==
  LET leading == CHOOSE n \in 0 .. Len(words) : /\ \A i \in 1 .. n : is_option(words[i])
                                                /\ n = Len(words) \/ ~is_option(words[n + 1])
      parsed == CHOOSE n \in 0 .. leading : /\ \A i \in 1 .. n - 1 : words[i] \in {"-q", "-r"}
                                            /\ n = leading \/ (n > 0 /\ words[n] \notin {"-q", "-r"})
      cut == parsed > 0 /\ words[parsed] \notin {"-q", "-r"}
      rest == SubSeq(words, leading + 1, Len(words))
      whole == CHOOSE n \in 0 .. Len(rest) : /\ n % 2 = 0
                                             /\ \A i \in 1 .. n : i % 2 = 1 => rest[i] = "run" /\ rest[i + 1] \in Test
                                             /\ n + 1 >= Len(rest) \/ rest[n + 1] # "run" \/ rest[n + 2] \notin Test
      asked == [i \in 1 .. whole \div 2 |-> rest[2 * i]]
      hows == SelectSeq(SubSeq(words, 1, parsed), LAMBDA w : w \in {"-q", "-r"})
  IN /\ IsPrefix(tests, asked)
     /\ (machine # "up" \/ step > Len(main)) =>
          /\ tests = IF cut THEN <<>> ELSE asked
          /\ panicked <=> IF cut THEN words[parsed] # "-h" ELSE whole < Len(rest)
          /\ machine = IF cut /\ words[parsed] = "-h" THEN "off"
                       ELSE IF hows = <<>> THEN IF panicked THEN "spin" ELSE "up"
                       ELSE IF Last(hows) = "-q" THEN "off" ELSE "reboot"

\* paging_init() maps every page of RAM to itself, all but the kernel's text
\* writable, and nothing else.
PagesMapped ==
  pd # <<>> =>
    /\ DOMAIN pd = 0 .. pd_no(init_ram_pages - 1)
    /\ \A i \in DOMAIN pd : \A k \in 0 .. PER_TABLE - 1 :
      LET page == i * PER_TABLE + k
      IN IF page < init_ram_pages THEN pd[i][k] = <<[page |-> page, writable |-> page \notin KernelText]>>
         ELSE pd[i][k] = <<>>
=============================================================================
