---------------------------- MODULE MCJsonString ----------------------------
(***************************************************************************)
(* Texts and strings to try: the bytes at the edges of UTF-8's ranges.     *)
(***************************************************************************)
EXTENDS JsonString

As(t, u) == [text |-> t, units |-> u]
U(a, b, c, d) == <<Backslash, 117, a, b, c, d>>
Ill == <<56320, 56320>>   \* stands for no text: two low surrogates

Pieces ==
    {As(<<65>>, <<65>>), As(<<127>>, <<127>>), As(<<31>>, Ill), As(<<195, 169>>, <<233>>),
     As(<<226, 130, 172>>, <<8364>>), As(<<240, 159, 152, 128>>, <<55357, 56832>>),
     As(<<237, 160, 128>>, Ill), As(<<193, 191>>, Ill), As(<<244, 144, 128, 128>>, Ill),
     As(<<224, 128, 128>>, Ill), As(<<245>>, Ill),
     As(<<Backslash, Quote>>, <<34>>), As(<<Backslash, 98>>, <<8>>), As(<<Backslash, 120>>, Ill),
     As(U(48, 48, 49, 102), <<31>>), As(U(48, 48, 69, 57), <<233>>), As(U(102, 102, 102, 102), <<65535>>),
     As(U(48, 48, 71, 57), Ill),
     As(U(100, 56, 51, 68), <<55357>>), As(U(68, 69, 48, 48), <<56832>>)}

Raw == {65, 128, 143, 144, 159, 160, 191, 193, 195, 224, 237, 240, 244}
Chars == {<<65>>, <<Quote>>, <<31>>, <<195, 169>>, <<237, 159, 191>>, <<239, 191, 189>>,
          <<240, 159, 152, 128>>, <<244, 143, 191, 191>>}

Strings ==
    UNION {[1..n -> Raw] : n \in 0..3}
      \cup {<<b>> \o t : b \in {240, 244}, t \in [1..3 -> Raw]}
      \cup {a \o b : a \in Chars, b \in Chars}
=============================================================================
