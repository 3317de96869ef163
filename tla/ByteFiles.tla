------------------------------ MODULE ByteFiles ------------------------------
(***************************************************************************)
(* What the open files promise a program, without sectors and buffers: a    *)
(* file is a sequence of bytes, a channel a place in one. A file has one    *)
(* channel that is not for input only, or any number that are. Setting the  *)
(* pointer past the end fills the file up with zeros. Break closes every    *)
(* channel, and may spoil what was being written, but nothing else.         *)
(***************************************************************************)
EXTENDS Sequences, Integers

CONSTANTS Names, Channels, Byte,
  Places  \* where a program may set the pointer

VARIABLES
  content,   \* from the names in use to their bytes
  handle,    \* from the open channels to [name, ptr, alone, writes]: the
             \* file has no other channel; it may be written (is not locked)
  seek,      \* the pointer that is being set, as a set of [channel, to]
  got        \* how the last call ended: [kind, value]

vars == <<content, handle, seek, got>>

Done == [kind |-> "done", value |-> 0]
Error == [kind |-> "error", value |-> 0]
Size(c) == Len(content[handle[c].name])

With(f, x, y) == [z \in DOMAIN f \cup {x} |-> IF z = x THEN y ELSE f[z]]
Without(f, S) == [z \in DOMAIN f \ S |-> f[z]]
Holders(n) == {c \in DOMAIN handle : handle[c].name = n}

Init ==
  /\ DOMAIN content \subseteq Names
  /\ handle = [c \in {} |-> 0] /\ seek = {} /\ got = Done

Open(c, n, alone, writes) ==
  /\ got' = Done
  /\ seek = {} /\ c \in Channels \ DOMAIN handle /\ n \in DOMAIN content
  /\ writes => alone
  /\ \A d \in Holders(n) : ~alone /\ ~handle[d].alone
  /\ handle' = With(handle, c, [name |-> n, ptr |-> 0, alone |-> alone, writes |-> writes])
  /\ UNCHANGED <<seek, content>>

(* OPENOUT: a file of that name is emptied, or a new one made.              *)
OpenOut(c, n) ==
  /\ got' = Done
  /\ seek = {} /\ c \in Channels \ DOMAIN handle /\ Holders(n) = {}
  /\ handle' = With(handle, c, [name |-> n, ptr |-> 0, alone |-> TRUE, writes |-> TRUE])
  /\ content' = With(content, n, <<>>)
  /\ UNCHANGED seek

(* A new file without a channel, for there is none left; its bytes are      *)
(* whatever was on the disk.                                                *)
Appear(n) ==
  /\ got' = Error
  /\ seek = {} /\ n \in Names \ DOMAIN content
  /\ n \in DOMAIN content' /\ Without(content', {n}) = content
  /\ UNCHANGED <<handle, seek>>

Remove(n) ==
  /\ got' = Done
  /\ seek = {} /\ n \in DOMAIN content /\ Holders(n) = {}
  /\ content' = Without(content, {n})
  /\ UNCHANGED <<handle, seek>>

Get(c) ==
  /\ got'.kind = "byte"
  /\ seek = {} /\ c \in DOMAIN handle /\ handle[c].ptr < Size(c)
  /\ got'.value = content[handle[c].name][handle[c].ptr + 1]
  /\ handle' = [handle EXCEPT ![c].ptr = @ + 1]
  /\ UNCHANGED <<seek, content>>

GetAtEnd(c) ==
  /\ got' = [kind |-> "eof", value |-> 0]
  /\ seek = {} /\ c \in DOMAIN handle /\ handle[c].ptr = Size(c)
  /\ UNCHANGED <<handle, seek, content>>

Write(c, v) ==
  LET n == handle[c].name
      p == handle[c].ptr + 1
  IN  /\ handle[c].writes
      /\ handle' = [handle EXCEPT ![c].ptr = p]
      /\ content' = [content EXCEPT ![n] =
                       IF p <= Len(@) THEN [@ EXCEPT ![p] = v] ELSE Append(@, v)]

Put(c, v) ==
  /\ got' = Done
  /\ seek = {} /\ c \in DOMAIN handle
  /\ Write(c, v)
  /\ UNCHANGED seek

(* The disk has no room behind the file: the channel is closed.             *)
CannotExtend(c) ==
  /\ got' = Error
  /\ c \in DOMAIN handle /\ handle[c].writes /\ handle[c].ptr = Size(c)
  /\ handle' = Without(handle, {c})
  /\ seek' = {}
  /\ UNCHANGED content

Seek(c, to) ==
  /\ got' = Done
  /\ seek = {} /\ c \in DOMAIN handle
  /\ IF to <= Size(c)
       THEN /\ handle' = [handle EXCEPT ![c].ptr = to]
            /\ UNCHANGED seek
       ELSE /\ handle' = [handle EXCEPT ![c].ptr = Size(c)]
            /\ seek' = {[channel |-> c, to |-> to]}
  /\ UNCHANGED content

Pad(s) ==
  /\ s \in seek /\ Size(s.channel) < s.to
  /\ Write(s.channel, 0)
  /\ UNCHANGED <<seek, got>>

(* Either the file has become long enough, or it must not be written.       *)
SeekEnds ==
  /\ seek # {} /\ seek' = {}
  /\ \A s \in seek :
       \/ got' = Done /\ Size(s.channel) = s.to
       \/ got' = Error /\ ~handle[s.channel].writes
  /\ UNCHANGED <<handle, content>>

Close(c) ==
  /\ got' = Done
  /\ seek = {} /\ c \in DOMAIN handle
  /\ handle' = Without(handle, {c})
  /\ UNCHANGED <<seek, content>>

Written == {handle[c].name : c \in {d \in DOMAIN handle : handle[d].writes}}

Break ==
  /\ got' = Done
  /\ handle' = [c \in {} |-> 0] /\ seek' = {}
  /\ DOMAIN content' = DOMAIN content
  /\ \A n \in DOMAIN content \ Written : content'[n] = content[n]

(* A whole file is read at once. While it is being written, what is read is *)
(* not determined.                                                          *)
Load(n) ==
  /\ got'.kind = "file"
  /\ seek = {} /\ n \in DOMAIN content
  /\ n \notin Written => got'.value = content[n]
  /\ UNCHANGED <<handle, seek, content>>

(* A call that is refused, and one that changes nothing a program can see.  *)
NoEffect ==
  /\ got' \in {Done, Error}
  /\ UNCHANGED <<handle, seek, content>>

Next ==
  \/ NoEffect \/ SeekEnds \/ Break
  \/ \E c \in Channels : Get(c) \/ GetAtEnd(c) \/ CannotExtend(c) \/ Close(c)
  \/ \E c \in Channels, v \in Byte : Put(c, v)
  \/ \E c \in Channels, to \in Places : Seek(c, to)
  \/ \E s \in seek : Pad(s)
  \/ \E n \in Names : Appear(n) \/ Remove(n) \/ Load(n)
  \/ \E c \in Channels, n \in Names :
       OpenOut(c, n) \/ \E alone, writes \in BOOLEAN : Open(c, n, alone, writes)

Spec == Init /\ [][Next]_vars
==============================================================================
