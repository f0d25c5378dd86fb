-------------------------------- MODULE Tags --------------------------------
(***************************************************************************)
(* The tags that perdition puts before its own IMAP4 commands to a real    *)
(* server (imap4_tag.c).  A reply is told from a late one by its tag only. *)
(* CAPABILITY's tag is kept for the command after it when                  *)
(* imap4_out_get_capability() gives up early, as it does at a server's own *)
(* untagged line (imap4_out.c:103-128).                                    *)
(*                                                                         *)
(* A tag is a sequence of characters; the order of a character is 0-9,     *)
(* a-z, A-Z, here 0 .. 61.                                                 *)
(***************************************************************************)
EXTENDS Integers, Sequences, FiniteSets

CONSTANTS FirstTag,     \* IMAP_TAG_START
          MaxTags       \* bound: tags of one session

Characters == 0 .. 61

ASSUME TagsAssumption ==
  FirstTag \in Seq(Characters) /\ FirstTag # <<>> /\ MaxTags \in Nat

VARIABLES our_tag,      \* the tag of the latest command, or of the next one
          used,         \* history: what our_tag has been in this session
          latest        \* history: the command that our_tag was sent with last, or "none"

tag_vars == <<our_tag, used, latest>>

Commands == {"CAPABILITY", "other"}

\* the longest tail of the tag's last characters starts again from 0, and the
\* character before it goes on to the next
NoCarry(tag) == [tag EXCEPT ![Len(tag)] = (@ + 1) % 62]        \* mutant
imap4_tag_inc(tag) ==
  LET full == {k \in DOMAIN tag : \A j \in k .. Len(tag) : tag[j] = 61}
  IN [k \in DOMAIN tag |->
        IF k \in full THEN 0
        ELSE IF k = Len(tag) \/ k + 1 \in full THEN tag[k] + 1
        ELSE tag[k]]

TagInit == our_tag = FirstTag /\ used = {FirstTag} /\ latest = "none"

\* The tag is counted on after a reply, and a command is sent with it, or none
\* before it is counted on again (imap4_out_authenticate() counts at its end).
NextTag ==
  /\ Cardinality(used) < MaxTags
  /\ our_tag' = imap4_tag_inc(our_tag) /\ used' = used \cup {our_tag'}
  /\ latest' \in Commands \cup {"none"}

\* a command is sent with a tag that is new, or with CAPABILITY's
SameTag ==
  /\ latest \in {"none", "CAPABILITY"} /\ latest' \in Commands
  /\ UNCHANGED <<our_tag, used>>

\* the next session starts over (imap4_tag_create())
NewSession ==
  /\ our_tag # FirstTag
  /\ our_tag' = FirstTag /\ used' = {FirstTag} /\ latest' = "none"

TagNext == NextTag \/ SameTag \/ NewSession

TagSpec == TagInit /\ [][TagNext]_tag_vars

AllTags == [DOMAIN FirstTag -> Characters]

\* A command of a session has a tag that no earlier one has had, also when the
\* tag's last characters have started again from 0 or the tag as a whole has.
\* Two cases are excepted: it comes directly after CAPABILITY and has its tag
\* (imap4_out.c:103-128), or every tag there is was used.  (imap4_tag_inc())
TagsDoNotRepeat ==
  [][NextTag \/ SameTag =>
       \/ our_tag' \notin used
       \/ our_tag' = our_tag /\ latest # "other"
       \/ \A t \in AllTags : t \in used]_tag_vars
=============================================================================
