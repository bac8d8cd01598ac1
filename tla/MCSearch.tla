------------------------------ MODULE MCSearch ------------------------------
(***************************************************************************)
(* Two gifts.  The text is typed with a blank after it: without it, it is  *)
(* a tag, and with it the name of a shop.                                  *)
(***************************************************************************)
EXTENDS Search

MCGifts   == {"g1", "g2"}
MCMenus   == {"gift", "shop"}
MCTexts   == {"rose "}
MCTerms   == {"rose", "rose "}
MCTrim    == [text \in MCTexts |-> "rose"]
MCViewed  == {<<>>, <<"g2", "g1">>}
MCMatches == [menu \in MCMenus |-> [term \in MCTerms |->
                IF <<menu, term>> \in {<<"gift", "rose">>, <<"shop", "rose ">>}
                THEN {"g2"} ELSE {}]]
=============================================================================
