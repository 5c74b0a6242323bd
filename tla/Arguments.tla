----------------------------- MODULE Arguments -----------------------------
(***************************************************************************)
(* How userprog/process.c passes a command line to main: start_process     *)
(* splits it with strtok_r and fill_stack pushes the words, their          *)
(* addresses, argv, argc and a return address on the user stack, which     *)
(* grows down from PHYS_BASE.  The stack maps byte addresses to bytes; a   *)
(* word of four bytes is kept whole at its lowest address.                 *)
(***************************************************************************)
EXTENDS Strings

CONSTANT PHYS_BASE

SPACE_CH == 32

(* The words strtok_r returns one after the other, and the memory after it. *)
RECURSIVE Tokens(_, _)
Tokens(m, s) ==
  LET found(t, rest) == [m |-> rest.m, argv |-> <<t.token>> \o rest.argv]
      next(t) == IF t.token = NULL THEN [m |-> m, argv |-> <<>>] ELSE found(t, Tokens(t.m, t.save))
  IN  next(strtok_r(m, s, {SPACE_CH}))

(* The words are counted on a copy before they are collected.               *)
ArgvOf(file_name) ==
  LET strings(tokens) == [i \in DOMAIN tokens.argv |-> StringAt(tokens.m, tokens.argv[i])]
  IN  strings(Tokens(Append(file_name, NUL), 1))

(* Writes VALUES, W bytes apart, from address P on.                         *)
Push(stack, p, values, w) ==
  [a \in DOMAIN stack |->
     LET i == (a - p) \div w IN IF a >= p /\ (a - p) % w = 0 /\ i < Len(values) THEN values[i + 1] ELSE stack[a]]

RECURSIVE PushWords(_, _, _)
PushWords(argv, st, addrs) ==
  IF argv = <<>> THEN [st |-> st, addrs |-> addrs]
  ELSE LET word == Append(Head(argv), NUL)
           esp == st.esp - Len(word)
       IN  PushWords(Tail(argv), [esp |-> esp, stack |-> Push(st.stack, esp, word, 1)], Append(addrs, esp))

(* Where the array of addresses goes.                                       *)
ArrayAt(esp, argc) == esp - ((esp % 4) + (argc + 1) * 4)

fill_stack(argv) ==
  LET argc == Len(argv)
      push(words, array) ==
        [esp |-> array - 12,
         stack |-> Push(Push(words.st.stack, array, Append(words.addrs, NULL), 4),
                        array - 12, <<0, argc, array>>, 4)]
      below(words) == push(words, ArrayAt(words.st.esp, argc))
  IN  below(PushWords(argv, [esp |-> PHYS_BASE, stack |-> [a \in 0 .. PHYS_BASE - 1 |-> NUL]], <<>>))

-----------------------------------------------------------------------------
(* What main finds: argc above the return address, then argv.               *)
MainArgs(st) ==
  LET argc == st.stack[st.esp + 4]
      argv == st.stack[st.esp + 8]
      m == [i \in 1 .. PHYS_BASE |-> st.stack[i - 1]]
  IN  [argc |-> argc, end |-> st.stack[argv + 4 * argc],
       words |-> [i \in 1 .. argc |-> StringAt(m, st.stack[argv + 4 * (i - 1)] + 1)]]
=============================================================================
