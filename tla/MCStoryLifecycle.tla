--------------------------- MODULE MCStoryLifecycle ---------------------------
EXTENDS StoryLifecycle
=============================================================================
