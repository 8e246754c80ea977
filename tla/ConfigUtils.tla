---------------------------- MODULE ConfigUtils ----------------------------
(***************************************************************************)
(* How config.xml becomes the settings of a server and of its database,    *)
(* and how the settings of the database become the string that libpq is    *)
(* given and takes apart again.                                            *)
(*                                                                         *)
(* A document is NoNode (it cannot be parsed, or has no <config>), or a    *)
(* record of its two sections, each of them NoNode or the sequence of its  *)
(* children.  A text is a sequence of characters, of which only Blank and  *)
(* the words of a connection string matter.                                *)
(***************************************************************************)
EXTENDS Naturals, Sequences

SeqExt == INSTANCE SequencesExt

CONSTANTS
  NoNode,   \* the null xml_node
  Blank,    \* any character that std::isspace holds for
  Throws    \* what a function "returns" that throws

(* The fields of DbConfig by the elements they are read from. *)
FieldOf == [databaseType |-> "type", username |-> "username", password |-> "password",
            ip |-> "ip", port |-> "port", databaseName |-> "name"]

Fields == {FieldOf[e] : e \in DOMAIN FieldOf}

(* The words of a connection string, each taken for one character of it. *)
Keywords == {"user=", "host=", "password=", "dbname="}

Characters == {Blank} \cup Keywords \cup STRING

(* A blank is no keyword, and what stands for no node or for an exception is *)
(* neither a keyword nor a result.                                           *)
ASSUME NoResultAssumption ==
  /\ Blank \notin Keywords /\ NoNode \notin Keywords
  /\ \A S \in {Fields, Keywords} : Throws \notin [S -> Seq(Characters)]

(* Mutant: only leading white space goes. *)
ToStringTrimmed(text) ==
  IF text # <<>> /\ Head(text) = Blank THEN Tail(text) ELSE text

(* toString: all white space goes, not only at the ends, character by character. *)
KeepChar(kept, c) == IF c = Blank THEN kept ELSE Append(kept, c)

ToString(text) == SeqExt!FoldLeft(KeepChar, <<>>, text)

(* loadSetup and the look-up of a section, with a checkNode after each step. *)
Section(doc, name) == IF doc = NoNode THEN NoNode ELSE doc[name]

(* The loop over the children: every element that is a field is counted and  *)
(* stored, over an earlier one of the same name; others are passed over.     *)
ReadField(soFar, node) ==
  IF node.element \notin DOMAIN FieldOf THEN soFar
  ELSE [count  |-> soFar.count + 1,
        config |-> [soFar.config EXCEPT ![FieldOf[node.element]] = ToString(node.text)]]

ReadFields(nodes) ==
  SeqExt!FoldLeft(ReadField, [count |-> 0, config |-> [f \in Fields |-> <<>>]], nodes)

LoadDbConfig(doc) ==
  LET root == Section(doc, "databaseInfo")
  IN  IF root = NoNode \/ ReadFields(root).count < 6 THEN Throws ELSE ReadFields(root).config

(* The first child of that name. *)
Child(nodes, element) ==
  LET named == SelectSeq(nodes, LAMBDA n : n.element = element)
  IN  IF named = <<>> THEN NoNode ELSE named[1]

LoadServerConfig(doc) ==
  LET root  == Section(doc, "serverInfo")
      name  == Child(root, "defaultName")
      topic == Child(root, "defaultTopic")
  IN  IF root = NoNode \/ name = NoNode \/ topic = NoNode THEN Throws
      ELSE [defaultName |-> ToString(name.text), defaultTopic |-> ToString(topic.text)]

(* What initiate() concatenates; the type and the port are not in it. *)
ConnectionString(config) ==
  <<"user=">> \o config.username \o <<Blank, "host=">> \o config.ip \o
  <<Blank, "password=">> \o config.password \o <<Blank, "dbname=">> \o config.name

(* libpq on one character: white space ends a value that has begun, and is   *)
(* passed over anywhere else, also between a keyword and its value; what     *)
(* comes next must be a keyword, and all the rest belongs to a value.        *)
ParseChar(soFar, c) ==
  CASE c = Blank ->
         IF soFar.key # NoNode /\ soFar.options[soFar.key] # <<>>
           THEN [soFar EXCEPT !.key = NoNode] ELSE soFar
    [] c # Blank /\ soFar.key # NoNode ->
         [soFar EXCEPT !.options[soFar.key] = Append(@, c)]
    [] c # Blank /\ soFar.key = NoNode ->
         IF c \in Keywords THEN [soFar EXCEPT !.key = c, !.options[c] = <<>>]
                           ELSE [soFar EXCEPT !.valid = FALSE]

ConninfoParse(string) ==
  LET parsed == SeqExt!FoldLeft(ParseChar,
                  [key |-> NoNode, valid |-> TRUE, options |-> [k \in Keywords |-> <<>>]], string)
  IN  IF parsed.valid THEN parsed.options ELSE Throws

=============================================================================
