\* A loop written to leave out the first index starts before it.
CONSTANTS
  Role = {"A", "B"}
  Channel = {"c"}
  Type = {"T"}
  Index = {"I", "U", "Z", "N", "X"}
  Id = {"i", "j"}
  NoId = "none"
  SizeMax = 4
  Lower <- MCLower
  Upper <- MCUpper
  IndexOf <- MCIndexOf
  ListId = {1, 2, 3}
  Choreos <- MCChoreos
  Kinds = {":", "<", ">"}
SPECIFICATION Spec
INVARIANT ExcludesFirst
