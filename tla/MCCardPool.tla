----------------------------- MODULE MCCardPool -----------------------------
(* The instance of CardPool that TLC checks: two permanent pages, three    *)
(* pages of window, and owners of the classes the pool tells apart.        *)
EXTENDS CardPool

MCOwners == {"fw", "app", "media1", "media2"}
MCClassOf == [o \in MCOwners |-> CASE o = "fw" -> "FIRMWARE"
                                   [] o = "app" -> "APP"
                                   [] OTHER -> "MEDIA"]
MCLimit == [c \in Classes |-> IF c = "MEDIA" THEN 4 ELSE 2]
=============================================================================
