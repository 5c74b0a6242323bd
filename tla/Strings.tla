------------------------------ MODULE Strings ------------------------------
(***************************************************************************)
(* lib/string.c and the functions of filesys/filesys.c that split a path.  *)
(* A block of memory is a sequence of bytes, an address is an index of it, *)
(* NULL is index 0.  A string ends at its first NUL byte.                  *)
(***************************************************************************)
EXTENDS Integers, Sequences, FiniteSetsExt

NUL == 0
NULL == 0
SLASH == 47
NAME_MAX == 2    \* 14 in directory.h

FirstOr(S, else) == IF S = {} THEN else ELSE Min(S)

memcpy(m, dst, src, size) ==
  [i \in DOMAIN m |-> IF i \in dst .. dst + size - 1 THEN m[src + i - dst] ELSE m[i]]

memset(m, dst, value, size) ==
  [i \in DOMAIN m |-> IF i \in dst .. dst + size - 1 THEN value ELSE m[i]]

(* Copying one byte after the other, from offset K up or down.              *)
RECURSIVE CopyUp(_, _, _, _, _)
CopyUp(m, dst, src, size, k) ==
  IF k = size THEN m ELSE CopyUp([m EXCEPT ![dst + k] = m[src + k]], dst, src, size, k + 1)

RECURSIVE CopyDown(_, _, _, _)
CopyDown(m, dst, src, size) ==
  IF size = 0 THEN m
  ELSE CopyDown([m EXCEPT ![dst + size - 1] = m[src + size - 1]], dst, src, size - 1)

(* Wrong: copies upwards whichever way the blocks overlap.                  *)
memmove_Up(m, dst, src, size) == [m |-> CopyUp(m, dst, src, size, 0), ret |-> dst + size]

(* The pointer that counted upwards is returned where it stopped.           *)
memmove(m, dst, src, size) ==
  IF dst < src THEN [m |-> CopyUp(m, dst, src, size, 0), ret |-> dst + size]
  ELSE [m |-> CopyDown(m, dst, src, size), ret |-> dst]

memcmp(a, b, size) ==
  LET k == FirstOr({i \in 1 .. size : a[i] # b[i]}, 0)
  IN  IF k = 0 THEN 0 ELSE IF a[k] > b[k] THEN 1 ELSE -1

memchr(m, p, ch, size) == FirstOr({i \in p .. p + size - 1 : m[i] = ch}, NULL)

strlen(m, p) == Min({n \in 0 .. Len(m) - p : m[p + n] = NUL})

strnlen(m, p, maxlen) == Min({n \in 0 .. maxlen : n = maxlen \/ m[p + n] = NUL})

(* The string at P, without its terminator.                                 *)
StringAt(m, p) == SubSeq(m, p, p + strlen(m, p) - 1)

(* A and B are compared up to and with the first terminator.                *)
strcmp(m, a, b) ==
  LET k == Min({i \in 0 .. Min({strlen(m, a), strlen(m, b)}) : m[a + i] = NUL \/ m[a + i] # m[b + i]})
  IN  IF m[a + k] < m[b + k] THEN -1 ELSE IF m[a + k] > m[b + k] THEN 1 ELSE 0

strchr(m, p, c) == FirstOr({i \in p .. p + strlen(m, p) : m[i] = c}, NULL)

strrchr(m, p, c) ==
  LET at == {i \in p .. p + strlen(m, p) - 1 : m[i] = c} IN IF at = {} THEN NULL ELSE Max(at)

(* STOP and SKIP are the sets of characters of those strings.               *)
strcspn(m, p, stop) == Min({n \in 0 .. strlen(m, p) : m[p + n] \in stop \cup {NUL}})

strspn(m, p, skip) == Min({n \in 0 .. strlen(m, p) : m[p + n] \notin skip})

strpbrk(m, p, stop) == FirstOr({i \in p .. p + strlen(m, p) - 1 : m[i] \in stop}, NULL)

strstr(m, haystack, needle) ==
  LET h == StringAt(m, haystack)
      n == StringAt(m, needle)
      at == {i \in 0 .. Len(h) - Len(n) : memcmp(SubSeq(h, i + 1, Len(h)), n, Len(n)) = 0}
  IN  IF at = {} THEN NULL ELSE haystack + Min(at)

(* S is the saved position when the caller passes a null pointer.           *)
strtok_r(m, s, delimiters) ==
  LET token == s + strspn(m, s, delimiters)
      end == token + strcspn(m, token, delimiters)
  IN  IF m[token] = NUL THEN [m |-> m, token |-> NULL, save |-> token]
      ELSE [m |-> [m EXCEPT ![end] = NUL], token |-> token,
            save |-> IF m[end] # NUL THEN end + 1 ELSE end]

strlcpy(m, dst, src, size) ==
  LET n == Min({strlen(m, src), size - 1})
  IN  [ret |-> strlen(m, src),
       m |-> IF size = 0 THEN m ELSE [memcpy(m, dst, src, n) EXCEPT ![dst + n] = NUL]]

strlcat(m, dst, src, size) ==
  LET dst_len == strlen(m, dst)
      n == Min({strlen(m, src), size - dst_len - 1})
  IN  [ret |-> strlen(m, src) + dst_len,
       m |-> IF size = 0 \/ dst_len >= size THEN m
             ELSE [memcpy(m, dst + dst_len, src, n) EXCEPT ![dst + dst_len + n] = NUL]]

-----------------------------------------------------------------------------
(* Path names: PATH is the string without its terminator.                   *)

(* The next part of PATH from position P on, and where the search goes on;  *)
(* P stays where it was unless a part was returned.                         *)
get_next_part(path, p) ==
  LET m == Append(path, NUL)
      src == p + strspn(m, p, {SLASH})
      end == src + strcspn(m, src, {SLASH})
  IN  IF m[src] = NUL THEN [ret |-> 0, part |-> <<>>, p |-> p]
      ELSE IF end - src > NAME_MAX THEN [ret |-> -1, part |-> <<>>, p |-> p]
      ELSE [ret |-> 1, part |-> SubSeq(m, src, end - 1), p |-> end]

(* The last position up to I where the character is, or is not, a slash.    *)
Back(path, i, slash) ==
  Max({0} \cup {k \in 1 .. i : (path[k] = SLASH) = slash})

dirname(path) ==
  LET last == Back(path, Len(path), FALSE)
      slash == Back(path, last - 1, TRUE)
      end == Back(path, slash - 1, FALSE)
  IN  IF path = <<>> THEN <<SLASH>>
      ELSE IF last = 0 THEN path
      ELSE IF slash = 0 THEN <<46>>
      ELSE IF end = 0 THEN <<SLASH>>
      ELSE SubSeq(path, 1, end)

basename(path) ==
  LET last == Back(path, Len(path), FALSE)
      slash == Back(path, last, TRUE)
  IN  IF path = <<>> THEN <<>>
      ELSE IF last = 0 THEN <<SLASH>>
      ELSE SubSeq(path, slash + 1, last)
=============================================================================
