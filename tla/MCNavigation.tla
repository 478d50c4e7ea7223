--------------------------- MODULE MCNavigation ---------------------------
EXTENDS Navigation

MCAddresses ==
    {To(s, "") : s \in Sections \ {"unauthorized", "wifi", "ap", "mqtt", "system"}}
    \cup {[section |-> "ap", tab |-> "settings", slash |-> TRUE],
          [section |-> "system", tab |-> "", slash |-> TRUE]}
    \cup {To("security", "settings"), To("system", "ota"), To("wifi", "scan"),
          To("wifi", "nowhere"), To("mqtt", "status"), To("project", "rest")}

MCFeatureSets == {AllFeatures, AllFeatures \ {"security"}, {"security", "ntp"}}
=============================================================================
